---- MODULE Spec2Model ----
(***************************************************************************)
(* Model of the search-sheets index and ranking engine:                    *)
(*   SearchService (backend/services/search-service.js), the heuristics    *)
(*   of backend/utils/heuristics.js, EmbeddingService.calculateCosine-     *)
(*   Similarity and LabelService.generateLabels.                           *)
(*                                                                         *)
(* Text is a sequence of one-character strings, so that toLowerCase,       *)
(* split and includes are computed and not assumed.  null, undefined and   *)
(* the empty string are all the empty sequence: the code only tests these  *)
(* fields for truthiness.  Real numbers are fixed-point integers: scores   *)
(* components in thousandths, weights in hundredths, keyword scores in     *)
(* tenths.  A JavaScript number that may be NaN is a record [nan, v].      *)
(***************************************************************************)
EXTENDS Integers, Sequences, FiniteSets, Bags, TLC

(* ------------------------------ bounds -------------------------------- *)

\* ingestion calls (addToIndex, addRangesToIndex) in flight at once
MaxTasks == 2
\* documents per ingestion batch
MaxBatch == 2
\* entries of a list of concepts
MaxConcepts == 2
\* functions of a parsed formula
MaxFunctions == 2
\* rows and columns of a parsed sheet
MaxRows == 3
MaxColumns == 2
\* components of a vector passed to calculateCosineSimilarity
\* nearby cells in the context of a cell
MaxContext == 4
\* rows and columns of the value grid of a sheet
GridRows == 5
GridColumns == 5
\* files of one upload, and sheets of one workbook
MaxFiles == 2
MaxSheets == 2
MaxDimension == 2
\* bits of the significand of a floating-point number (a JavaScript number
\* has 53; its rounding is the same at every width)
Precision == 13
\* pieces (a word or one blank) a keyword query is assembled from
MaxQueryPieces == 3
\* largest topK a caller passes (the smallest is -MaxTopK + 1)
MaxTopK == 3

(* ------------------------------- text --------------------------------- *)

\* the lower-case letter of every upper-case letter
LowerChars ==
  [A |-> "a", B |-> "b", C |-> "c", D |-> "d", E |-> "e", F |-> "f", G |-> "g",
   H |-> "h", I |-> "i", J |-> "j", K |-> "k", L |-> "l", M |-> "m", N |-> "n",
   O |-> "o", P |-> "p", Q |-> "q", R |-> "r", S |-> "s", T |-> "t", U |-> "u",
   V |-> "v", W |-> "w", X |-> "x", Y |-> "y", Z |-> "z"]

\* String.prototype.toLowerCase on one character
LowerChar(c) == IF c \in DOMAIN LowerChars THEN LowerChars[c] ELSE c

\* String.prototype.toLowerCase
RECURSIVE ToLowerCase(_)
ToLowerCase(s) ==
  IF Len(s) = 0 THEN <<>> ELSE <<LowerChar(Head(s))>> \o ToLowerCase(Tail(s))

\* String.prototype.includes: pat occurs in text (the empty pattern always does)
Includes(text, pat) ==
  \E i \in 1..(Len(text) - Len(pat) + 1) :
    \A k \in 1..Len(pat) : text[i + k - 1] = pat[k]

\* the characters the regular expression \s matches, among those the model uses
IsSpace(c) == c \in {" ", "\t"}

\* String.prototype.split(/\s+/): cut at every maximal run of white space; a
\* leading or trailing run leaves an empty first or last piece, "" gives [""]
RECURSIVE SplitFrom(_, _, _, _)
SplitFrom(s, i, cur, acc) ==
  IF i > Len(s) THEN Append(acc, cur)
  ELSE IF IsSpace(s[i])
       THEN IF i > 1 /\ IsSpace(s[i - 1])
            THEN SplitFrom(s, i + 1, cur, acc)
            ELSE SplitFrom(s, i + 1, <<>>, Append(acc, cur))
       ELSE SplitFrom(s, i + 1, Append(cur, s[i]), acc)

SplitWhitespace(s) == SplitFrom(s, 1, <<>>, <<>>)

\* Array.prototype.join
RECURSIVE Join(_, _)
Join(parts, sep) ==
  IF Len(parts) = 0 THEN <<>>
  ELSE IF Len(parts) = 1 THEN parts[1]
  ELSE parts[1] \o sep \o Join(Tail(parts), sep)

\* Array.prototype.filter(Boolean) on strings
NonEmpty(parts) == SelectSeq(parts, LAMBDA p : Len(p) > 0)

\* [...new Set(xs)]: duplicates dropped, first occurrences kept in order
RECURSIVE Dedup(_)
Dedup(xs) ==
  IF Len(xs) = 0 THEN <<>>
  ELSE LET front == Dedup(SubSeq(xs, 1, Len(xs) - 1))
           last == xs[Len(xs)]
       IN IF \E i \in 1..Len(front) : front[i] = last THEN front ELSE Append(front, last)

\* Array.prototype.slice(0, end) for an integer end: a negative end counts
\* from the end of the array
Slice0(xs, end) ==
  LET n == Len(xs)
      e == IF end < 0 THEN (IF n + end < 0 THEN 0 ELSE n + end)
           ELSE (IF end > n THEN n ELSE end)
  IN SubSeq(xs, 1, e)

Min(a, b) == IF a < b THEN a ELSE b
Max(a, b) == IF a > b THEN a ELSE b


(* --------------------------- JavaScript numbers ------------------------ *)

\* a number that may be NaN; v is meaningful only when nan is FALSE
Num(v) == [nan |-> FALSE, v |-> v]
NaN == [nan |-> TRUE, v |-> 0]

\* Math.min(x, cap) for a possibly-NaN x: NaN stays NaN
NumMin(x, cap) == IF x.nan THEN NaN ELSE Num(Min(x.v, cap))

(* ------------------- backend/utils/heuristics.js ----------------------- *)

\* matchesPattern: some pattern is a substring of the text
MatchesPattern(text, patterns) ==
  \E p \in patterns : Includes(text, ToLowerCase(p))

\* the patterns detectBusinessConcepts looks for, by the concept they give
ConceptPatterns ==
  [revenue |-> {<<"r", "e", "v", "e", "n", "u", "e">>, <<"s", "a", "l", "e", "s">>, <<"i", "n", "c", "o", "m", "e">>, <<"e", "a", "r", "n", "i", "n", "g", "s">>},
   cost |-> {<<"c", "o", "s", "t">>, <<"e", "x", "p", "e", "n", "s", "e">>, <<"c", "o", "g", "s">>, <<"c", "o", "s", "t", " ", "o", "f", " ", "g", "o", "o", "d", "s">>, <<"o", "p", "e", "r", "a", "t", "i", "n", "g", " ", "e", "x", "p", "e", "n", "s", "e">>},
   profitability |-> {<<"p", "r", "o", "f", "i", "t">>, <<"m", "a", "r", "g", "i", "n">>, <<"g", "r", "o", "s", "s", " ", "p", "r", "o", "f", "i", "t">>, <<"n", "e", "t", " ", "p", "r", "o", "f", "i", "t">>, <<"e", "b", "i", "t", "d", "a">>},
   percentage |-> {<<"%">>, <<"p", "e", "r", "c", "e", "n", "t">>, <<"p", "e", "r", "c", "e", "n", "t", "a", "g", "e">>, <<"r", "a", "t", "e">>, <<"r", "a", "t", "i", "o">>},
   growth |-> {<<"g", "r", "o", "w", "t", "h">>, <<"i", "n", "c", "r", "e", "a", "s", "e">>, <<"d", "e", "c", "r", "e", "a", "s", "e">>, <<"c", "h", "a", "n", "g", "e">>, <<"c", "a", "g", "r">>, <<"y", "o", "y">>},
   budget |-> {<<"b", "u", "d", "g", "e", "t">>, <<"a", "c", "t", "u", "a", "l">>, <<"v", "a", "r", "i", "a", "n", "c", "e">>, <<"f", "o", "r", "e", "c", "a", "s", "t">>, <<"p", "r", "o", "j", "e", "c", "t", "i", "o", "n">>},
   time_series |-> {<<"q", "1">>, <<"q", "2">>, <<"q", "3">>, <<"q", "4">>, <<"q", "u", "a", "r", "t", "e", "r">>, <<"m", "o", "n", "t", "h", "l", "y">>, <<"y", "e", "a", "r", "l", "y">>, <<"a", "n", "n", "u", "a", "l">>},
   financial_ratio |-> {<<"r", "o", "i">>, <<"r", "o", "a">>, <<"r", "o", "e">>, <<"d", "e", "b", "t">>, <<"e", "q", "u", "i", "t", "y">>, <<"r", "a", "t", "i", "o">>},
   lookup |-> {<<"v", "l", "o", "o", "k", "u", "p">>, <<"h", "l", "o", "o", "k", "u", "p">>, <<"x", "l", "o", "o", "k", "u", "p">>, <<"i", "n", "d", "e", "x">>, <<"m", "a", "t", "c", "h">>},
   aggregation |-> {<<"s", "u", "m">>, <<"a", "v", "e", "r", "a", "g", "e">>, <<"c", "o", "u", "n", "t">>, <<"m", "a", "x">>, <<"m", "i", "n">>},
   conditional |-> {<<"i", "f">>, <<"i", "f", "s">>, <<"s", "w", "i", "t", "c", "h">>, <<"c", "h", "o", "o", "s", "e">>}]

\* the text detectBusinessConcepts searches: value, then the headers and every
\* context value joined by blanks
ConceptText(cell) ==
  LET text == ToLowerCase(cell.formattedValue)
      headerText == ToLowerCase(Join(NonEmpty(<<cell.column, cell.row>> \o cell.context), <<" ">>))
  IN text \o <<" ">> \o headerText

\* detectBusinessConcepts: one tag per pattern group that matches, in the
\* order of the groups
DetectBusinessConcepts(cell) ==
  LET allText == ConceptText(cell)
      f == ToLowerCase(cell.formula)
      hasFormula == Len(cell.formula) > 0
      tag(cond, name) == IF cond THEN <<name>> ELSE <<>>
  IN Dedup(
       tag(MatchesPattern(allText, ConceptPatterns.revenue), <<"r", "e", "v", "e", "n", "u", "e">>)
    \o tag(MatchesPattern(allText, ConceptPatterns.cost), <<"c", "o", "s", "t">>)
    \o tag(MatchesPattern(allText, ConceptPatterns.profitability), <<"p", "r", "o", "f", "i", "t", "a", "b", "i", "l", "i", "t", "y">>)
    \o tag(MatchesPattern(allText, ConceptPatterns.percentage), <<"p", "e", "r", "c", "e", "n", "t", "a", "g", "e">>)
    \o tag(MatchesPattern(allText, ConceptPatterns.growth), <<"g", "r", "o", "w", "t", "h">>)
    \o tag(MatchesPattern(allText, ConceptPatterns.budget), <<"b", "u", "d", "g", "e", "t">>)
    \o tag(MatchesPattern(allText, ConceptPatterns.time_series), <<"t", "i", "m", "e", "_", "s", "e", "r", "i", "e", "s">>)
    \o tag(MatchesPattern(allText, ConceptPatterns.financial_ratio), <<"f", "i", "n", "a", "n", "c", "i", "a", "l", "_", "r", "a", "t", "i", "o">>)
    \o tag(hasFormula /\ MatchesPattern(f, ConceptPatterns.lookup), <<"l", "o", "o", "k", "u", "p">>)
    \o tag(hasFormula /\ MatchesPattern(f, ConceptPatterns.aggregation), <<"a", "g", "g", "r", "e", "g", "a", "t", "i", "o", "n">>)
    \o tag(hasFormula /\ MatchesPattern(f, ConceptPatterns.conditional), <<"c", "o", "n", "d", "i", "t", "i", "o", "n", "a", "l">>))

\* a concept match that divides by the number of labels alone
ConceptMatchOverLabels(cellConcepts, queryConcepts) ==
  IF Len(cellConcepts) = 0 \/ Len(queryConcepts) = 0 THEN 0
  ELSE LET intersection ==
             SelectSeq(cellConcepts,
                       LAMBDA c : \E i \in 1..Len(queryConcepts) : queryConcepts[i] = c)
       IN (Len(intersection) * 1000) \div Len(cellConcepts)

\* calculateConceptMatch, in thousandths: the labels that are query concepts,
\* over the longer of the two lists; 0 when either is empty
CalculateConceptMatch(cellConcepts, queryConcepts) ==
  IF Len(cellConcepts) = 0 \/ Len(queryConcepts) = 0 THEN 0
  ELSE LET intersection ==
             SelectSeq(cellConcepts,
                       LAMBDA c : \E i \in 1..Len(queryConcepts) : queryConcepts[i] = c)
       IN (Len(intersection) * 1000) \div Max(Len(cellConcepts), Len(queryConcepts))

\* const maxComplexity = 20
MaxComplexity == 20


\* a document without parsedFormula
NoParsedFormula ==
  [present |-> FALSE, hasFunctions |-> FALSE, functions |-> <<>>,
   hasComplexity |-> FALSE, complexity2 |-> 0, type |-> <<>>]

\* detectFormulaComplexity, in thousandths.  complexity2 is twice the parser's
\* complexity (which counts in halves); a parsedFormula without a complexity
\* field gives undefined / 20 = NaN, and Math.min keeps NaN
DetectFormulaComplexity(parsedFormula) ==
  IF ~parsedFormula.present \/ ~parsedFormula.hasFunctions THEN Num(0)
  ELSE LET normalizedComplexity ==
             IF parsedFormula.hasComplexity
             THEN NumMin(Num((parsedFormula.complexity2 * 1000) \div (2 * MaxComplexity)), 1000)
             ELSE NaN
           hasComplexFunctions ==
             \E i \in 1..Len(parsedFormula.functions) :
               parsedFormula.functions[i] \in {"VLOOKUP", "INDEX", "MATCH", "XLOOKUP", "IFS", "SWITCH"}
       IN IF hasComplexFunctions
          THEN NumMin(IF normalizedComplexity.nan THEN NaN
                      ELSE Num(normalizedComplexity.v + 300), 1000)
          ELSE normalizedComplexity

SheetPatterns ==
  [high |-> {<<"p", "&", "l">>, <<"p", "r", "o", "f", "i", "t">>, <<"i", "n", "c", "o", "m", "e">>, <<"r", "e", "v", "e", "n", "u", "e">>, <<"f", "i", "n", "a", "n", "c", "i", "a", "l">>, <<"b", "u", "d", "g", "e", "t">>, <<"f", "o", "r", "e", "c", "a", "s", "t">>},
   medium |-> {<<"d", "a", "s", "h", "b", "o", "a", "r", "d">>, <<"s", "u", "m", "m", "a", "r", "y">>, <<"o", "v", "e", "r", "v", "i", "e", "w">>, <<"a", "n", "a", "l", "y", "s", "i", "s">>, <<"m", "e", "t", "r", "i", "c", "s">>},
   low |-> {<<"r", "a", "w">>, <<"d", "a", "t", "a">>, <<"i", "n", "p", "u", "t">>, <<"t", "e", "m", "p">>, <<"b", "a", "c", "k", "u", "p">>}]

\* calculateSheetImportance, in thousandths
CalculateSheetImportance(sheetName) ==
  LET name == ToLowerCase(sheetName)
  IN IF MatchesPattern(name, SheetPatterns.high) THEN 1000
     ELSE IF MatchesPattern(name, SheetPatterns.medium) THEN 700
     ELSE IF MatchesPattern(name, SheetPatterns.low) THEN 300
     ELSE 500

(* ---------------- backend/services/label-service.js -------------------- *)

\* LabelService.initialized: false after construction; initialize() is the only
\* place that sets it, and generateLabels reaches initialize() only through
\* generateLLMLabels, which it calls only when initialized is already true
LabelServiceInitialized == FALSE

\* generateBasicLabels: the six basic patterns, ['data'] when none matches
GenerateBasicLabels(cell) ==
  LET allText == ConceptText(cell)
      tag(cond, name) == IF cond THEN <<name>> ELSE <<>>
      labels ==
           tag(Includes(allText, <<"r", "e", "v", "e", "n", "u", "e">>) \/ Includes(allText, <<"s", "a", "l", "e", "s">>), <<"r", "e", "v", "e", "n", "u", "e">>)
        \o tag(Includes(allText, <<"c", "o", "s", "t">>) \/ Includes(allText, <<"e", "x", "p", "e", "n", "s", "e">>), <<"c", "o", "s", "t">>)
        \o tag(Includes(allText, <<"p", "r", "o", "f", "i", "t">>) \/ Includes(allText, <<"m", "a", "r", "g", "i", "n">>), <<"p", "r", "o", "f", "i", "t", "a", "b", "i", "l", "i", "t", "y">>)
        \o tag(Includes(allText, <<"%">>) \/ Includes(allText, <<"p", "e", "r", "c", "e", "n", "t">>), <<"p", "e", "r", "c", "e", "n", "t", "a", "g", "e">>)
        \o tag(Len(cell.formula) > 0, <<"f", "o", "r", "m", "u", "l", "a">>)
        \o tag(Includes(allText, <<"b", "u", "d", "g", "e", "t">>) \/ Includes(allText, <<"a", "c", "t", "u", "a", "l">>), <<"b", "u", "d", "g", "e", "t">>)
  IN IF Len(labels) > 0 THEN labels ELSE << <<"d", "a", "t", "a">> >>

\* what the LLM backend answers when asked: it fails, or returns labels
LlmFailure == [ok |-> FALSE, labels |-> <<>>]

\* generateLabels: heuristic tags when there are any; else the LLM's labels when
\* the service is initialized and the call succeeds; else the basic labels
GenerateLabels(cell, llm) ==
  LET heuristicLabels == DetectBusinessConcepts(cell)
  IN IF Len(heuristicLabels) > 0
     THEN [labels |-> heuristicLabels, confidence |-> 800, method |-> "heuristic"]
     ELSE IF LabelServiceInitialized /\ llm.ok
     THEN [labels |-> llm.labels, confidence |-> 0, method |-> "llm"]
     ELSE [labels |-> GenerateBasicLabels(cell), confidence |-> 500, method |-> "basic"]

\* generateRangeLabels: generateLabels on the synthetic cell it builds
GenerateRangeLabels(range, llm) ==
  LET syntheticCell ==
        [formattedValue |-> Join(range.sampleValues, <<",", " ">>),
         column |-> range.header, row |-> <<>>, context |-> <<>>,
         formula |-> IF range.hasFormulas THEN <<"f", "o", "r", "m", "u", "l", "a", "_", "r", "a", "n", "g", "e">> ELSE <<>>]
  IN GenerateLabels(syntheticCell, llm)

(* -------------- backend/services/embedding-service.js ------------------ *)

\* floor(1000 * sqrt(n)) by bisection, for Math.sqrt in thousandths
RECURSIVE SqrtBetween(_, _, _)
SqrtBetween(lo, hi, n) ==
  IF hi - lo <= 1 THEN lo
  ELSE LET mid == (lo + hi) \div 2
       IN IF mid * mid <= n THEN SqrtBetween(mid, hi, n) ELSE SqrtBetween(lo, mid, n)

SqrtMilli(n) == SqrtBetween(0, 1000 * (n + 1), n * 1000000)

RECURSIVE DotProduct(_, _, _)
DotProduct(a, b, n) == IF n = 0 THEN 0 ELSE DotProduct(a, b, n - 1) + a[n] * b[n]

\* calculateCosineSimilarity without its length check
CosineAccepts(vectorA, vectorB) == FALSE

\* calculateCosineSimilarity throws 'Vectors must have the same length'
CosineThrows(vectorA, vectorB) == Len(vectorA) # Len(vectorB)

\* calculateCosineSimilarity, in thousandths: 0 when either norm is 0, else
\* dotProduct / (sqrt(normA) * sqrt(normB))
CalculateCosineSimilarity(vectorA, vectorB) ==
  LET n == Min(Len(vectorA), Len(vectorB))
      dotProduct == DotProduct(vectorA, vectorB, n)
      normA == SqrtMilli(DotProduct(vectorA, vectorA, Len(vectorA)))
      normB == SqrtMilli(DotProduct(vectorB, vectorB, Len(vectorB)))
      magnitude == IF dotProduct < 0 THEN -dotProduct ELSE dotProduct
      quotient == (magnitude * 1000000) \div ((normA * normB) \div 1000)
  IN IF normA = 0 \/ normB = 0 THEN 0
     ELSE IF dotProduct < 0 THEN -quotient ELSE quotient


(* ---------------- backend/services/excel-parser.js --------------------- *)

\* one decimal digit as text (template-literal interpolation of a row number)
DigitText(n) == << <<"0","1","2","3","4","5","6","7","8","9">>[n + 1] >>

\* String.prototype.trim
RECURSIVE Trim(_)
Trim(text) ==
  IF Len(text) = 0 THEN text
  ELSE IF IsSpace(text[1]) THEN Trim(Tail(text))
  ELSE IF IsSpace(text[Len(text)]) THEN Trim(SubSeq(text, 1, Len(text) - 1))
  ELSE text

\* heuristics.js detectHeaders(values) with headerRows = 1, as parseSheet
\* calls it: the trimmed text of the first cell of the first row if it has
\* any, and the trimmed texts of the cells of the first row that have any,
\* pushed one after the other (the values of the grid are strings; the
\* headerRows of the result are read by nothing)
DetectHeaders(values) ==
  IF Len(values) = 0 THEN [rowHeaders |-> <<>>, columnHeaders |-> <<>>]
  ELSE LET firstRow == values[1]
           texts == SelectSeq(firstRow, LAMBDA cell : Len(Trim(cell)) > 0)
       IN [rowHeaders |-> IF Len(firstRow) > 0 /\ Len(Trim(firstRow[1])) > 0
                          THEN << Trim(firstRow[1]) >> ELSE <<>>,
           columnHeaders |-> [j \in 1..Len(texts) |-> Trim(texts[j])]]

\* ExcelParserService.generateId(name):
\* name.toLowerCase().replace(/[^a-z0-9]/g, '_')
RECURSIVE GenerateId(_)
GenerateId(name) ==
  LET kept == {LowerChars[c] : c \in DOMAIN LowerChars}
                \cup {"0", "1", "2", "3", "4", "5", "6", "7", "8", "9"}
  IN IF Len(name) = 0 THEN <<>>
     ELSE << IF LowerChar(Head(name)) \in kept THEN LowerChar(Head(name)) ELSE "_" >>
            \o GenerateId(Tail(name))

\* a cell of parseSheet, with the fields createRangeDocuments reads: header
\* is headers.column, the entry of columnHeaders at the cell's column or null
ParsedCell(sheetName, columnHeaders, row, column, cellValue) ==
  [id |-> GenerateId(sheetName) \o <<"_">> \o DigitText(row) \o <<"_">> \o DigitText(column),
   sheetName |-> sheetName, row |-> row, column |-> column,
   header |-> IF column <= Len(columnHeaders) THEN columnHeaders[column] ELSE <<>>,
   formattedValue |-> cellValue,
   formula |-> IF row = 2 /\ column = 1 THEN <<"=", "A", "1">> ELSE <<>>]

\* const groupKey = `${cell.sheetName}_${cell.headers.column || 'unknown'}`
GroupKey(cell) ==
  cell.sheetName \o <<"_">> \o (IF Len(cell.header) > 0 THEN cell.header ELSE <<"u", "n", "k", "n", "o", "w", "n">>)

\* the keys of cellGroups, in the order the Map got them
RECURSIVE GroupKeys(_)
GroupKeys(cells) ==
  IF Len(cells) = 0 THEN <<>>
  ELSE LET front == GroupKeys(SubSeq(cells, 1, Len(cells) - 1))
           key == GroupKey(cells[Len(cells)])
       IN IF \E i \in 1..Len(front) : front[i] = key THEN front ELSE Append(front, key)

\* Math.min(...xs) and Math.max(...xs) of a non-empty set of integers
MinOf(xs) == CHOOSE x \in xs : \A y \in xs : x <= y
MaxOf(xs) == CHOOSE x \in xs : \A y \in xs : x >= y

\* groupCells.slice(0, 5).map(c => c.formattedValue)
RECURSIVE FormattedValues(_)
FormattedValues(cells) ==
  IF Len(cells) = 0 THEN <<>>
  ELSE <<Head(cells).formattedValue>> \o FormattedValues(Tail(cells))

\* the range createRangeDocuments builds for one group
RangeOfGroup(groupKey, groupCells) ==
  LET rows == {groupCells[i].row : i \in 1..Len(groupCells)}
      columns == {groupCells[i].column : i \in 1..Len(groupCells)}
  IN [id |-> <<"r", "a", "n", "g", "e", "_">> \o groupKey,
      sheetName |-> groupCells[1].sheetName,
      header |-> groupCells[1].header,
      cells |-> groupCells,
      startRow |-> MinOf(rows), endRow |-> MaxOf(rows),
      startColumn |-> MinOf(columns), endColumn |-> MaxOf(columns),
      sampleValues |-> FormattedValues(Slice0(groupCells, 5)),
      hasFormulas |-> \E i \in 1..Len(groupCells) : Len(groupCells[i].formula) > 0]

\* the ranges of the groups keys[1..n]; a group of fewer than 2 cells is skipped
RECURSIVE RangesOfGroups(_, _, _)
RangesOfGroups(cells, keys, n) ==
  IF n = 0 THEN <<>>
  ELSE LET groupCells == SelectSeq(cells, LAMBDA c : GroupKey(c) = keys[n])
       IN RangesOfGroups(cells, keys, n - 1)
          \o (IF Len(groupCells) < 2 THEN <<>> ELSE <<RangeOfGroup(keys[n], groupCells)>>)

\* ExcelParserService.createRangeDocuments
CreateRangeDocuments(cells) ==
  LET keys == GroupKeys(cells) IN RangesOfGroups(cells, keys, Len(keys))

(* ------------- calculateCosineSimilarity in floating point ------------- *)

\* A positive floating-point number is [m, e] and stands for m * 2^e, with
\* 2^(Precision-1) <= m < 2^Precision.  Every operation gives the number of
\* this form nearest to the exact result, ties going to the even m (IEEE 754
\* round to nearest even, the arithmetic of JavaScript numbers).

RECURSIVE Pow2(_)
Pow2(k) == IF k = 0 THEN 1 ELSE 2 * Pow2(k - 1)

RECURSIVE BitLength(_)
BitLength(n) == IF n = 0 THEN 0 ELSE 1 + BitLength(n \div 2)

\* m * 2^e with m brought back into range when rounding up made it 2^Precision
Normalized(m, e) ==
  IF m = Pow2(Precision) THEN [m |-> Pow2(Precision - 1), e |-> e + 1]
  ELSE [m |-> m, e |-> e]

\* the least k for which the root of n * 4^k has Precision bits
RECURSIVE RootScale(_, _)
RootScale(n, k) ==
  IF n * Pow2(2 * k) >= Pow2(2 * Precision - 2) THEN k ELSE RootScale(n, k + 1)

\* Math.sqrt(n) for a positive integer n
RoundedSqrt(n) ==
  LET k == RootScale(n, 0)
      scaled == n * Pow2(2 * k)
      root == SqrtBetween(0, Pow2(Precision), scaled)
  IN Normalized(IF scaled - root * root > root THEN root + 1 ELSE root, -k)

\* x * y
RoundedProduct(x, y) ==
  LET product == x.m * y.m
      shift == BitLength(product) - Precision
      kept == product \div Pow2(shift)
      rest == product % Pow2(shift)
      half == Pow2(shift - 1)
      up == rest > half \/ (rest = half /\ kept % 2 = 1)
  IN Normalized(IF up THEN kept + 1 ELSE kept, x.e + y.e + shift)

\* the least t for which (d * 2^t) / m has Precision bits
RECURSIVE QuotientScale(_, _, _)
QuotientScale(d, m, t) ==
  IF (d * Pow2(t)) \div m >= Pow2(Precision - 1) THEN t ELSE QuotientScale(d, m, t + 1)

\* d / y for a positive integer d
RoundedQuotient(d, y) ==
  LET t == QuotientScale(d, y.m, 0)
      scaled == d * Pow2(t)
      kept == scaled \div y.m
      rest == scaled % y.m
      up == 2 * rest > y.m \/ (2 * rest = y.m /\ kept % 2 = 1)
  IN Normalized(IF up THEN kept + 1 ELSE kept, -t - y.e)

\* the number 0, and a number with its sign
FloatZero == [sign |-> 0, m |-> 0, e |-> 0]
Signed(sign, x) == [sign |-> sign, m |-> x.m, e |-> x.e]

\* a cosine that divides by the square of the first vector's norm
CosineOverOwnNorm(vectorA, vectorB) ==
  LET dotProduct == DotProduct(vectorA, vectorB, Len(vectorA))
      normA == DotProduct(vectorA, vectorA, Len(vectorA))
      normB == DotProduct(vectorB, vectorB, Len(vectorB))
  IN IF normA = 0 \/ normB = 0 \/ dotProduct = 0 THEN FloatZero
     ELSE Signed(IF dotProduct < 0 THEN -1 ELSE 1,
                 RoundedQuotient(IF dotProduct < 0 THEN -dotProduct ELSE dotProduct,
                                 RoundedProduct(RoundedSqrt(normA), RoundedSqrt(normA))))

\* calculateCosineSimilarity for vectors of equal length, as its
\* floating-point operations compute it.  The components are small integers,
\* so the three sums of the loop are exact; the square roots, their product
\* and the quotient are rounded
RoundedCosineSimilarity(vectorA, vectorB) ==
  LET dotProduct == DotProduct(vectorA, vectorB, Len(vectorA))
      normA == DotProduct(vectorA, vectorA, Len(vectorA))
      normB == DotProduct(vectorB, vectorB, Len(vectorB))
  IN IF normA = 0 \/ normB = 0 \/ dotProduct = 0 THEN FloatZero
     ELSE Signed(IF dotProduct < 0 THEN -1 ELSE 1,
                 RoundedQuotient(IF dotProduct < 0 THEN -dotProduct ELSE dotProduct,
                                 RoundedProduct(RoundedSqrt(normA), RoundedSqrt(normB))))

(* ------------------ the cache of generateEmbedding --------------------- *)

\* EmbeddingService.hashText before Math.abs: hash = ((hash << 5) - hash) +
\* char for each character, which is 31 * hash + char.  The texts below have
\* two characters, so no step leaves the 32-bit range and hash & hash
\* changes nothing.  charCodeAt is given for the characters of those texts
RECURSIVE HashOf(_)
HashOf(text) ==
  LET charCodes == [A |-> 65, B |-> 66, a |-> 97]
  IN IF Len(text) = 0 THEN 0
     ELSE 31 * HashOf(SubSeq(text, 1, Len(text) - 1)) + charCodes[text[Len(text)]]

\* EmbeddingService.hashText: Math.abs(hash).toString(36), a different string
\* for every absolute value
HashText(text) == IF HashOf(text) < 0 THEN -HashOf(text) ELSE HashOf(text)

\* const cacheKey = `embedding_${type}_${this.hashText(text)}`
CacheKey(text, type) == <<type, HashText(text)>>

\* the texts and kinds generateEmbedding is called with
EmbeddingCalls == {<<"A", "a">>, <<"B", "B">>} \X {"cell", "query"}


(* ------------------------- the formula parser -------------------------- *)

\* determineFormulaType(ast), by what extractFunctions and extractOperators
\* give for the ast: lists without duplicates, read only with includes and
\* length
DetermineFormulaType(functions, operators) ==
  IF "SUM" \in functions THEN <<"a", "g", "g", "r", "e", "g", "a", "t", "i", "o", "n">>
  ELSE IF "AVERAGE" \in functions THEN <<"a", "g", "g", "r", "e", "g", "a", "t", "i", "o", "n">>
  ELSE IF "COUNT" \in functions THEN <<"a", "g", "g", "r", "e", "g", "a", "t", "i", "o", "n">>
  ELSE IF "MAX" \in functions \/ "MIN" \in functions THEN <<"a", "g", "g", "r", "e", "g", "a", "t", "i", "o", "n">>
  ELSE IF "IF" \in functions THEN <<"c", "o", "n", "d", "i", "t", "i", "o", "n", "a", "l">>
  ELSE IF "VLOOKUP" \in functions \/ "HLOOKUP" \in functions THEN <<"l", "o", "o", "k", "u", "p">>
  ELSE IF "INDEX" \in functions \/ "MATCH" \in functions THEN <<"l", "o", "o", "k", "u", "p">>
  ELSE IF "XLOOKUP" \in functions THEN <<"l", "o", "o", "k", "u", "p">>
  ELSE IF "/" \in operators /\ Cardinality(functions) = 0 THEN <<"p", "e", "r", "c", "e", "n", "t", "a", "g", "e">>
  ELSE IF "*" \in operators /\ Cardinality(functions) = 0 THEN <<"c", "a", "l", "c", "u", "l", "a", "t", "i", "o", "n">>
  ELSE IF "+" \in operators \/ "-" \in operators THEN <<"c", "a", "l", "c", "u", "l", "a", "t", "i", "o", "n">>
  ELSE IF "RATE" \in functions \/ "CAGR" \in functions THEN <<"f", "i", "n", "a", "n", "c", "i", "a", "l">>
  ELSE IF "PMT" \in functions \/ "FV" \in functions \/ "PV" \in functions THEN <<"f", "i", "n", "a", "n", "c", "i", "a", "l">>
  ELSE <<"o", "t", "h", "e", "r">>

(* --------------------------- input documents --------------------------- *)

\* a Cell as excel-parser.js parseSheet builds it (the fields the index and
\* the rankers read); hasCells is the presence of the `cells` field, by which
\* the code tells a Range from a Cell
CellDoc(id, sheetName, column, row, formattedValue, formula, parsedFormula) ==
  [id |-> id, hasCells |-> FALSE, sheetName |-> sheetName,
   column |-> column, row |-> row, context |-> <<>>,
   formattedValue |-> formattedValue, formula |-> formula,
   parsedFormula |-> parsedFormula,
   header |-> <<>>, sampleValues |-> <<>>, hasFormulas |-> FALSE,
   startRow |-> 0, endRow |-> 0]

\* a Range as createRangeDocuments builds it: it has no headers, no
\* formattedValue, no formula and no parsedFormula of its own
RangeDoc(id, sheetName, header, sampleValues, hasFormulas, startRow, endRow) ==
  [id |-> id, hasCells |-> TRUE, sheetName |-> sheetName,
   column |-> <<>>, row |-> <<>>, context |-> <<>>,
   formattedValue |-> <<>>, formula |-> <<>>,
   parsedFormula |-> NoParsedFormula,
   header |-> header, sampleValues |-> sampleValues, hasFormulas |-> hasFormulas,
   startRow |-> startRow, endRow |-> endRow]

\* parseFormula's result when the parser reports an error: functions,
\* references and operators are empty lists and there is neither a
\* complexity nor a type field
ParseFailure ==
  [present |-> TRUE, hasFunctions |-> TRUE, functions |-> <<>>,
   hasComplexity |-> FALSE, complexity2 |-> 0, type |-> <<>>]

\* parseFormula's result for a formula that parses, with these functions and
\* operators
ParseSuccess(functions, complexity2, operators) ==
  [present |-> TRUE, hasFunctions |-> TRUE, functions |-> functions,
   hasComplexity |-> TRUE, complexity2 |-> complexity2,
   type |-> DetermineFormulaType({functions[i] : i \in 1..Len(functions)}, operators)]

\* Budget!A2 = 100 under the column header Revenue
CellRevenue ==
  CellDoc("budget_2_1", <<"B", "u", "d", "g", "e", "t">>, <<"R", "e", "v", "e", "n", "u", "e">>, <<>>, <<"1", "0", "0">>, <<>>, NoParsedFormula)
\* the same position after the workbook was edited: =B2/C2, one operator and
\* two references (complexity 2)
CellEdited ==
  CellDoc("budget_2_1", <<"B", "u", "d", "g", "e", "t">>, <<>>, <<"Q", "1">>, <<"z", "z">>, <<"=", "B", "2", "/", "C", "2">>, ParseSuccess(<<>>, 4, {"/"}))
\* the range of the Revenue column of Budget
RangeRevenue ==
  RangeDoc("range_Budget_Revenue", <<"B", "u", "d", "g", "e", "t">>, <<"R", "e", "v", "e", "n", "u", "e">>, << <<"1", "0", "0">>, <<"2", "0", "0">> >>, FALSE, 2, 3)

\* Plan!A2 holds a text in which no pattern occurs, under no header
CellPlain ==
  CellDoc("plan_2_1", <<"P", "l", "a", "n">>, <<>>, <<>>, <<"z", "z">>, <<>>, NoParsedFormula)
\* the same with a formula
CellPlainFormula ==
  CellDoc("plan_2_1", <<"P", "l", "a", "n">>, <<>>, <<>>, <<"z", "z">>, <<"=", "B", "2", "/", "C", "2">>, ParseSuccess(<<>>, 4, {"/"}))

\* (the third: RawData!B2 holds a formula the parser rejects)
CellCatalog ==
  {CellRevenue, CellEdited,
   CellDoc("rawdata_2_2", <<"R", "a", "w", "D", "a", "t", "a">>, <<"Q", "1">>, <<>>, <<"5">>, <<"=", "S", "U", "M", "(">>, ParseFailure)}
RangeCatalog == {RangeRevenue}

\* ranges with and without their member cells: the range of Revenue, and the
\* summary of a range as a client of addRangesToIndex may send it, the fields
\* of a Range without the member cells (the `cells` field is absent)
RangesAndSummaries ==
  {RangeRevenue,
   [RangeDoc("range1", <<"B", "u", "d", "g", "e", "t">>, <<"R", "e", "v", "e", "n", "u", "e">>, << <<"1", "0", "0">> >>, FALSE, 2, 3)
      EXCEPT !.hasCells = FALSE]}

SeqsUpTo(S, n) == UNION {[1..k -> S] : k \in 0..n}

CellBatches == SeqsUpTo(CellCatalog, MaxBatch)
RangeBatches == SeqsUpTo(RangeCatalog, MaxBatch)

(* --------------------- the embedding backend (stub) -------------------- *)


BackendVector(text, kind, backend) ==
  LET v == <<(Len(text) % 3) - 1, Len(text) % 2>>
  IN IF backend = "mixed" /\ kind = "range" THEN Append(v, 0) ELSE v

(* ---------------- backend/services/search-service.js ------------------- *)

\* SearchService.generateEmbeddingText
GenerateEmbeddingText(doc) ==
  Join(  << <<"S", "h", "e", "e", "t", ":", " ">> \o doc.sheetName >>
      \o (IF Len(doc.column) > 0 THEN << <<"C", "o", "l", "u", "m", "n", ":", " ">> \o doc.column >> ELSE <<>>)
      \o (IF Len(doc.formula) > 0 THEN << <<"F", "o", "r", "m", "u", "l", "a", ":", " ">> \o doc.formula >>
          ELSE IF Len(doc.formattedValue) > 0 THEN << <<"V", "a", "l", "u", "e", ":", " ">> \o doc.formattedValue >>
          ELSE <<>>),
      <<" ", "-", " ">>)

\* SearchService.generateRangeEmbeddingText
GenerateRangeEmbeddingText(range) ==
  Join(  << <<"S", "h", "e", "e", "t", ":", " ">> \o range.sheetName,
            <<"H", "e", "a", "d", "e", "r", ":", " ">> \o range.header,
            <<"R", "a", "n", "g", "e", ":", " ">> \o DigitText(range.startRow) \o <<"-">> \o DigitText(range.endRow) >>
      \o (IF Len(range.sampleValues) > 0
          THEN << <<"V", "a", "l", "u", "e", "s", ":", " ">> \o Join(Slice0(range.sampleValues, 3), <<",", " ">>) >>
          ELSE <<>>),
      <<" ", "-", " ">>)

\* the document addToIndex / addRangesToIndex stores: the input document with
\* its embedding and labels
Enrich(doc, embedding, labels) ==
  [id |-> doc.id, hasCells |-> doc.hasCells, sheetName |-> doc.sheetName,
   column |-> doc.column, row |-> doc.row, context |-> doc.context,
   formattedValue |-> doc.formattedValue, formula |-> doc.formula,
   parsedFormula |-> doc.parsedFormula,
   header |-> doc.header, sampleValues |-> doc.sampleValues,
   hasFormulas |-> doc.hasFormulas, startRow |-> doc.startRow, endRow |-> doc.endRow,
   embedding |-> embedding, labels |-> labels.labels,
   labelConfidence |-> labels.confidence, labelMethod |-> labels.method]

\* position of the entry with this key in the index, 0 when there is none
IndexPos(idx, id) ==
  IF \E i \in 1..Len(idx) : idx[i].id = id
  THEN CHOOSE i \in 1..Len(idx) : idx[i].id = id
  ELSE 0

\* a store that appends every entry, whether or not the key is there
IndexPush(idx, entry) == Append(idx, entry)

\* Map.prototype.set: an existing key keeps its place and gets the new value,
\* a new key goes to the end
IndexSet(idx, entry) ==
  IF IndexPos(idx, entry.id) > 0
  THEN [idx EXCEPT ![IndexPos(idx, entry.id)] = entry]
  ELSE Append(idx, entry)

\* search without the early return on an empty index
IndexNeverEmpty(idx) == FALSE

\* if (this.index.size === 0) return []
IndexIsEmpty(idx) == Len(idx) = 0

\* SearchService.getStats: the size of the index, the documents without a
\* `cells` field and those with one
GetStats(idx) ==
  [totalDocuments |-> Len(idx),
   cells |-> Len(SelectSeq(idx, LAMBDA doc : ~doc.hasCells)),
   ranges |-> Len(SelectSeq(idx, LAMBDA doc : doc.hasCells))]


\* the conceptMap of detectQueryConcepts, in the order of its entries
ConceptMap ==
  << <<<<"p", "r", "o", "f", "i", "t">>, <<"p", "r", "o", "f", "i", "t", "a", "b", "i", "l", "i", "t", "y">>>>, <<<<"m", "a", "r", "g", "i", "n">>, <<"p", "r", "o", "f", "i", "t", "a", "b", "i", "l", "i", "t", "y">>>>,
     <<<<"r", "e", "v", "e", "n", "u", "e">>, <<"r", "e", "v", "e", "n", "u", "e">>>>, <<<<"s", "a", "l", "e", "s">>, <<"r", "e", "v", "e", "n", "u", "e">>>>,
     <<<<"c", "o", "s", "t">>, <<"c", "o", "s", "t">>>>, <<<<"e", "x", "p", "e", "n", "s", "e">>, <<"c", "o", "s", "t">>>>,
     <<<<"p", "e", "r", "c", "e", "n", "t", "a", "g", "e">>, <<"p", "e", "r", "c", "e", "n", "t", "a", "g", "e">>>>, <<<<"r", "a", "t", "i", "o">>, <<"p", "e", "r", "c", "e", "n", "t", "a", "g", "e">>>>,
     <<<<"g", "r", "o", "w", "t", "h">>, <<"g", "r", "o", "w", "t", "h">>>>, <<<<"b", "u", "d", "g", "e", "t">>, <<"b", "u", "d", "g", "e", "t">>>>,
     <<<<"a", "c", "t", "u", "a", "l">>, <<"b", "u", "d", "g", "e", "t">>>>, <<<<"f", "o", "r", "e", "c", "a", "s", "t">>, <<"b", "u", "d", "g", "e", "t">>>>,
     <<<<"l", "o", "o", "k", "u", "p">>, <<"l", "o", "o", "k", "u", "p">>>>, <<<<"v", "l", "o", "o", "k", "u", "p">>, <<"l", "o", "o", "k", "u", "p">>>>,
     <<<<"f", "o", "r", "m", "u", "l", "a">>, <<"f", "o", "r", "m", "u", "l", "a">>>>, <<<<"c", "a", "l", "c", "u", "l", "a", "t", "i", "o", "n">>, <<"f", "o", "r", "m", "u", "l", "a">>>> >>

RECURSIVE ConceptsFrom(_, _)
ConceptsFrom(lowerQuery, n) ==
  IF n = 0 THEN <<>>
  ELSE ConceptsFrom(lowerQuery, n - 1)
       \o (IF Includes(lowerQuery, ConceptMap[n][1]) THEN <<ConceptMap[n][2]>> ELSE <<>>)

\* SearchService.detectQueryConcepts
DetectQueryConcepts(query) == Dedup(ConceptsFrom(ToLowerCase(query), Len(ConceptMap)))

\* process.env.X: unset, or a number written in hundredths
Unset == [set |-> FALSE, v |-> 0]
Configured(v) == [set |-> TRUE, v |-> v]

\* parseFloat(process.env.X) || fallback: NaN (unset) and 0 both give the fallback
EnvWeight(e, fallback) == IF e.set /\ e.v # 0 THEN e.v ELSE fallback

\* SearchService.calculateFinalScore, in 1/100000: NaN when the formula
\* complexity is NaN (w: its weights object, in hundredths)
CalculateFinalScore(e, similarity, conceptMatch, formulaComplexity, sheetImportance) ==
  LET w == [semantic |-> EnvWeight(e.SEMANTIC_WEIGHT, 70),
            concept |-> EnvWeight(e.CONCEPT_MATCH_WEIGHT, 15),
            formula |-> EnvWeight(e.FORMULA_COMPLEXITY_WEIGHT, 10),
            sheet |-> EnvWeight(e.SHEET_IMPORTANCE_WEIGHT, 5)]
  IN IF formulaComplexity.nan THEN NaN
     ELSE Num(  w.semantic * similarity + w.concept * conceptMatch
              + w.formula * formulaComplexity.v + w.sheet * sheetImportance)

\* the documents the loops of search and keywordSearch do not skip
Scanned(idx, includeRanges) ==
  SelectSeq(idx, LAMBDA d : ~(~includeRanges /\ d.hasCells))

\* the scoring loop of search throws when calculateCosineSimilarity does
ScanThrows(idx, queryEmbedding, includeRanges) ==
  LET docs == Scanned(idx, includeRanges)
  IN \E i \in 1..Len(docs) : CosineThrows(queryEmbedding, docs[i].embedding)

\* the entry search pushes for one document
ScoreDocument(e, doc, queryEmbedding, queryConcepts) ==
  LET similarity == CalculateCosineSimilarity(queryEmbedding, doc.embedding)
      conceptMatch == CalculateConceptMatch(doc.labels, queryConcepts)
      formulaComplexity ==
        IF doc.parsedFormula.present THEN DetectFormulaComplexity(doc.parsedFormula)
        ELSE Num(0)
      sheetImportance == CalculateSheetImportance(doc.sheetName)
  IN [docId |-> doc.id, doc |-> doc, similarity |-> similarity,
      conceptMatch |-> conceptMatch, formulaComplexity |-> formulaComplexity,
      sheetImportance |-> sheetImportance,
      finalScore |-> CalculateFinalScore(e, similarity, conceptMatch,
                                         formulaComplexity, sheetImportance)]

\* similarities.push({...}) for each of docs in turn
RECURSIVE SimilaritiesOf(_, _, _, _)
SimilaritiesOf(e, docs, queryEmbedding, queryConcepts) ==
  IF Len(docs) = 0 THEN <<>>
  ELSE Append(SimilaritiesOf(e, SubSeq(docs, 1, Len(docs) - 1), queryEmbedding, queryConcepts),
              ScoreDocument(e, docs[Len(docs)], queryEmbedding, queryConcepts))

\* a scoring loop that pushes only documents whose similarity is positive
SimilaritiesAboveZero(e, idx, queryEmbedding, queryConcepts, includeRanges) ==
  LET docs == Scanned(idx, includeRanges)
  IN SelectSeq(SimilaritiesOf(e, docs, queryEmbedding, queryConcepts),
               LAMBDA s : s.similarity > 0)

\* the similarities array, in index (insertion) order
Similarities(e, idx, queryEmbedding, queryConcepts, includeRanges) ==
  SimilaritiesOf(e, Scanned(idx, includeRanges), queryEmbedding, queryConcepts)

\* (a, b) => b.finalScore - a.finalScore as Array.prototype.sort reads it:
\* negative, positive, or 0, a NaN result counting as 0
\* and (a, b) => b.score - a.score of keywordSearch
Compare(by, a, b) ==
  IF by = "finalScore"
  THEN IF a.finalScore.nan \/ b.finalScore.nan THEN 0
       ELSE b.finalScore.v - a.finalScore.v
  ELSE b.score - a.score

\* Array.prototype.sort with a consistent comparator (stable since ES2019):
\* each element goes after the last one that does not have to follow it
RECURSIVE StableSort(_, _)
StableSort(xs, by) ==
  IF Len(xs) = 0 THEN <<>>
  ELSE LET front == StableSort(SubSeq(xs, 1, Len(xs) - 1), by)
           x == xs[Len(xs)]
           keep == {k \in 0..Len(front) :
                      \A j \in (k + 1)..Len(front) : Compare(by, front[j], x) > 0}
           at == CHOOSE k \in keep : \A m \in keep : k <= m
       IN SubSeq(front, 1, at) \o <<x>> \o SubSeq(front, at + 1, Len(front))

\* the comparator is consistent on xs (ECMAScript, Array.prototype.sort):
\* comparing equal is transitive
ConsistentComparator(xs, by) ==
  \A i, j, k \in 1..Len(xs) :
    (Compare(by, xs[i], xs[j]) = 0 /\ Compare(by, xs[j], xs[k]) = 0)
      => Compare(by, xs[i], xs[k]) = 0

\* what similarities.sort(...) may leave: the stable sort when the comparator
\* is consistent, otherwise an implementation-defined order
SortByFinalScore(xs) ==
  IF ConsistentComparator(xs, "finalScore")
  THEN {StableSort(xs, "finalScore")}
  ELSE {[i \in 1..Len(xs) |-> xs[f[i]]] :
          f \in {g \in [1..Len(xs) -> 1..Len(xs)] :
                   \A i, j \in 1..Len(xs) : g[i] = g[j] => i = j}}

\* SearchService.formatSearchResult (similarity, conceptMatch, formulaComplexity
\* and sheetImportance are the fields of the ranked entry it was made from)
FormatSearchResult(r) ==
  [id |-> r.doc.id, relevance |-> r.finalScore,
   type |-> IF r.doc.hasCells THEN "range" ELSE "cell",
   labels |-> r.doc.labels,
   similarity |-> r.similarity, conceptMatch |-> r.conceptMatch,
   formulaComplexity |-> r.formulaComplexity, sheetImportance |-> r.sheetImportance,
   score |-> 0, reasons |-> <<>>]

\* queryTerms.forEach over one text field: a hit per term the field contains;
\* a falsy field is not searched
FieldHits(text, terms, field, weight) ==
  IF Len(text) = 0 THEN <<>>
  ELSE LET lower == ToLowerCase(text)
           hit(i) == IF Includes(lower, terms[i])
                     THEN << [field |-> field, term |-> terms[i], weight |-> weight] >>
                     ELSE <<>>
           RECURSIVE upTo(_)
           upTo(n) == IF n = 0 THEN <<>> ELSE upTo(n - 1) \o hit(n)
       IN upTo(Len(terms))

\* doc.labels.forEach(label => queryTerms.forEach(...))
RECURSIVE LabelHits(_, _, _)
LabelHits(labels, terms, n) ==
  IF n = 0 THEN <<>>
  ELSE LabelHits(labels, terms, n - 1) \o FieldHits(labels[n], terms, "label", 15)

\* the hits keywordSearch finds in one document, in the order it records
\* them; weights in tenths
KeywordHits(doc, terms) ==
     FieldHits(doc.column, terms, "header", 20)
  \o FieldHits(doc.row, terms, "row header", 15)
  \o FieldHits(doc.formattedValue, terms, "value", 10)
  \o FieldHits(doc.formula, terms, "formula", 15)
  \o LabelHits(doc.labels, terms, Len(doc.labels))

RECURSIVE SumWeights(_)
SumWeights(hits) == IF Len(hits) = 0 THEN 0 ELSE hits[1].weight + SumWeights(Tail(hits))

\* if (score >= 0) results.push(...)
KeywordKeepsZero(score) == score >= 0

\* if (score > 0) results.push(...)
KeywordKeeps(score) == score > 0

\* the results array of keywordSearch before sorting (entry: what the loop
\* builds for one document, the score in tenths and the match descriptions in
\* the order they were pushed)
RECURSIVE KeywordResultsOf(_, _)
KeywordResultsOf(docs, terms) ==
  IF Len(docs) = 0 THEN <<>>
  ELSE LET doc == docs[Len(docs)]
           hits == KeywordHits(doc, terms)
           entry == [docId |-> doc.id, doc |-> doc, score |-> SumWeights(hits),
                     matches |-> [k \in 1..Len(hits) |->
                                    [field |-> hits[k].field, term |-> hits[k].term]]]
       IN KeywordResultsOf(SubSeq(docs, 1, Len(docs) - 1), terms)
          \o (IF KeywordKeeps(entry.score) THEN <<entry>> ELSE <<>>)

KeywordResults(idx, terms, includeRanges) ==
  KeywordResultsOf(Scanned(idx, includeRanges), terms)

\* SearchService.formatKeywordResult: relevance = score / 10, in thousandths
\* (score is the raw score of the entry the result was made from)
FormatKeywordResult(r) ==
  [id |-> r.doc.id, relevance |-> Num((r.score * 100) \div 10),
   type |-> IF r.doc.hasCells THEN "range" ELSE "cell",
   labels |-> r.doc.labels,
   similarity |-> 0, conceptMatch |-> 0,
   formulaComplexity |-> Num(0), sheetImportance |-> 0,
   score |-> r.score, reasons |-> r.matches]

\* topResults.map(result => this.formatSearchResult(result, query))
FormatSearchResults(xs) == [i \in 1..Len(xs) |-> FormatSearchResult(xs[i])]


(* ------------------------------ inputs --------------------------------- *)

\* the environments the process may be started with: nothing configured, or
\* SEMANTIC_WEIGHT=0 with CONCEPT_MATCH_WEIGHT=0.3
DefaultEnv ==
  [SEMANTIC_WEIGHT |-> Unset, CONCEPT_MATCH_WEIGHT |-> Unset,
   FORMULA_COMPLEXITY_WEIGHT |-> Unset, SHEET_IMPORTANCE_WEIGHT |-> Unset]

\* queries of the semantic search
SemanticQueries == {<<"R", "e", "v", "e", "n", "u", "e">>, <<"z", "z">>}

\* keyword queries: up to MaxQueryPieces pieces, each the word Rev or a blank
RECURSIVE Concat(_)
Concat(parts) == IF Len(parts) = 0 THEN <<>> ELSE parts[1] \o Concat(Tail(parts))

\* the queries of keywordSearch
KeywordQueries == {Concat(p) : p \in SeqsUpTo({<<"R", "e", "v">>, <<" ">>}, MaxQueryPieces)}

\* the topK values callers pass, negative ones included
TopKs == (1 - MaxTopK)..MaxTopK

DocIds == {d.id : d \in CellCatalog \cup RangeCatalog \cup RangesAndSummaries}

(* ------------------------------- state --------------------------------- *)

VARIABLES
  index,      \* SearchService.index: the entries of the Map, in insertion order
  tasks,      \* the ingestion calls in flight, each suspended at an await (a bag)
  outcome,    \* what the call that has just returned did and gave its caller
  lastWrite,  \* per id, the entry of the latest index.set since the last clear
              \* and the call that made it
  env,        \* process.env
  backend,    \* the embedding backend the process talks to
  embeddingCache,  \* EmbeddingService.embeddingCache: per key, <<vector>> or <<>>
  delivered,  \* per text and kind, the vectors generateEmbedding has returned
  produced,   \* per text, the vectors the backend has produced for it
  stale       \* the suspended ingestion calls that began before the latest
              \* clearIndex of a process that keeps track of them

vars == <<index, tasks, outcome, lastWrite, env, backend, embeddingCache, delivered, produced, stale>>

NoOutcome ==
  [op |-> "none", status |-> "none", results |-> <<>>, query |-> <<>>,
   topK |-> 0, includeRanges |-> FALSE, batch |-> <<>>, unprocessed |-> <<>>,
   embeddingRequested |-> FALSE, providerUp |-> TRUE, replaced |-> FALSE,
   stats |-> GetStats(<<>>), args |-> <<>>, value |-> <<>>, earlier |-> {}]

\* the previous call's result has been taken by its caller
Ready == outcome.op = "none"

\* the caller takes the result of the call that has just returned
Respond ==
  /\ ~Ready
  /\ outcome' = NoOutcome
  /\ UNCHANGED <<index, tasks, lastWrite, env, backend, embeddingCache, delivered, produced, stale>>

Init ==
  /\ index = <<>>
  /\ tasks = EmptyBag
  /\ outcome = NoOutcome
  /\ lastWrite = [id \in DocIds |-> <<>>]
  /\ env \in {DefaultEnv,
              [SEMANTIC_WEIGHT |-> Configured(0), CONCEPT_MATCH_WEIGHT |-> Configured(30),
               FORMULA_COMPLEXITY_WEIGHT |-> Unset, SHEET_IMPORTANCE_WEIGHT |-> Unset]}
  /\ backend \in {"uniform", "mixed"}
  /\ embeddingCache = [key \in {CacheKey(call[1], call[2]) : call \in EmbeddingCalls} |-> <<>>]
  /\ delivered = [call \in EmbeddingCalls |-> {}]
  /\ produced = [text \in {call[1] : call \in EmbeddingCalls} |-> {}]
  /\ stale = EmptyBag

(* ----------------------------- ingestion ------------------------------- *)

\* the text one pass of the ingestion loop sends to the embedding backend
IngestText(kind, doc) ==
  IF kind = "addToIndex" THEN GenerateEmbeddingText(doc) ELSE GenerateRangeEmbeddingText(doc)

\* the entry one pass of the loop stores: the backend's vector for the text,
\* the labels of generateLabels / generateRangeLabels
IngestEntry(kind, doc, be) ==
  LET vector == BackendVector(IngestText(kind, doc),
                              IF kind = "addToIndex" THEN "cell" ELSE "range", be)
  IN IF kind = "addToIndex"
     THEN Enrich(doc, vector, GenerateLabels(doc, LlmFailure))
     ELSE Enrich(doc, vector, GenerateRangeLabels(doc, LlmFailure))

\* the index after the loop has stored the first n documents of the batch
RECURSIVE IndexAfter(_, _, _, _, _)
IndexAfter(idx, kind, docs, n, be) ==
  IF n = 0 THEN idx
  ELSE IndexSet(IndexAfter(idx, kind, docs, n - 1, be), IngestEntry(kind, docs[n], be))

RECURSIVE LastWriteAfter(_, _, _, _, _)
LastWriteAfter(lw, kind, docs, n, be) ==
  IF n = 0 THEN lw
  ELSE [LastWriteAfter(lw, kind, docs, n - 1, be)
          EXCEPT ![docs[n].id] = <<IngestEntry(kind, docs[n], be), kind>>]

\* addToIndex(documents) / addRangesToIndex(ranges) run from call to return
\* with no other call in between.  stored documents are indexed; when
\* stored < Len(docs) the embedding request for the next one is rejected, which
\* nothing catches: the loop is left and the call rejects.  replaced records
\* that an index.set of the call found its key already there
Ingest(kind, docs, stored) ==
  /\ Ready
  /\ index' = IndexAfter(index, kind, docs, stored, backend)
  /\ lastWrite' = LastWriteAfter(lastWrite, kind, docs, stored, backend)
  /\ outcome' = [NoOutcome EXCEPT !.op = kind,
                                  !.status = IF stored = Len(docs) THEN "ok" ELSE "error",
                                  !.batch = docs,
                                  !.unprocessed = SubSeq(docs, stored + 1, Len(docs)),
                                  !.replaced =
                                     \E n \in 1..stored :
                                       IndexPos(IndexAfter(index, kind, docs, n - 1, backend),
                                                docs[n].id) > 0]
  /\ UNCHANGED <<tasks, env, backend, embeddingCache, delivered, produced, stale>>

AddToIndex == \E docs \in CellBatches : Ingest("addToIndex", docs, Len(docs))

AddToIndexRejected ==
  \E docs \in CellBatches : \E stored \in 0..(Len(docs) - 1) : Ingest("addToIndex", docs, stored)

AddRangesToIndex == \E ranges \in RangeBatches : Ingest("addRangesToIndex", ranges, Len(ranges))

AddRangesToIndexRejected ==
  \E ranges \in RangeBatches : \E stored \in 0..(Len(ranges) - 1) :
    Ingest("addRangesToIndex", ranges, stored)

\* a clearIndex that leaves the documents where they are
ClearIndexKeepsDocuments ==
  /\ Ready
  /\ outcome' = [NoOutcome EXCEPT !.op = "clearIndex", !.status = "ok",
                                  !.stats = GetStats(index)]
  /\ UNCHANGED <<index, lastWrite, tasks, env, backend, embeddingCache, delivered, produced, stale>>

\* SearchService.clearIndex (stats: the statistics of the index it emptied)
ClearIndex ==
  /\ Ready
  /\ index' = <<>>
  /\ lastWrite' = [id \in DocIds |-> <<>>]
  /\ outcome' = [NoOutcome EXCEPT !.op = "clearIndex", !.status = "ok",
                                  !.stats = GetStats(index)]
  /\ UNCHANGED <<tasks, env, backend, embeddingCache, delivered, produced, stale>>

\* a getStats that drops the oldest entry of the index it counts
GetStatsDropsOldest ==
  /\ Ready
  /\ index' = SubSeq(index, 2, Len(index))
  /\ outcome' = [NoOutcome EXCEPT !.op = "getStats", !.status = "ok",
                                  !.stats = GetStats(index)]
  /\ UNCHANGED <<tasks, lastWrite, env, backend, embeddingCache, delivered, produced, stale>>

\* SearchService.getStats
GetStatsCall ==
  /\ Ready
  /\ outcome' = [NoOutcome EXCEPT !.op = "getStats", !.status = "ok",
                                  !.stats = GetStats(index)]
  /\ UNCHANGED <<index, tasks, lastWrite, env, backend, embeddingCache, delivered, produced, stale>>

(* ------------------------------- search -------------------------------- *)

SearchOutcome(status, results, query, topK, includeRanges, requested, up) ==
  [NoOutcome EXCEPT !.op = "search", !.status = status, !.results = results,
                    !.query = query, !.topK = topK, !.includeRanges = includeRanges,
                    !.embeddingRequested = requested, !.providerUp = up]

\* search(query, {topK, includeRanges}) with the embedding backend answering:
\* [] at once on an empty index; otherwise score every document, sort, slice
\* and format, or throw when a vector has another length than the query's
Search ==
  \E query \in SemanticQueries, topK \in TopKs, includeRanges \in BOOLEAN :
    /\ Ready
    /\ IF IndexIsEmpty(index)
       THEN outcome' = SearchOutcome("ok", <<>>, query, topK, includeRanges, FALSE, TRUE)
       ELSE LET queryEmbedding == BackendVector(query, "query", backend)
                queryConcepts == DetectQueryConcepts(query)
            IN IF ScanThrows(index, queryEmbedding, includeRanges)
               THEN outcome' = SearchOutcome("error", <<>>, query, topK, includeRanges, TRUE, TRUE)
               ELSE \E sorted \in SortByFinalScore(
                                    Similarities(env, index, queryEmbedding,
                                                 queryConcepts, includeRanges)) :
                      outcome' = SearchOutcome("ok",
                                   FormatSearchResults(Slice0(sorted, topK)),
                                   query, topK, includeRanges, TRUE, TRUE)
    /\ UNCHANGED <<index, tasks, lastWrite, env, backend, embeddingCache, delivered, produced, stale>>

\* search with the embedding backend failing: generateEmbedding(query, 'query')
\* rejects and so does search, unless the index is empty and nothing is asked
SearchBackendDown ==
  \E query \in SemanticQueries, topK \in TopKs, includeRanges \in BOOLEAN :
    /\ Ready
    /\ IF IndexIsEmpty(index)
       THEN outcome' = SearchOutcome("ok", <<>>, query, topK, includeRanges, FALSE, FALSE)
       ELSE outcome' = SearchOutcome("error", <<>>, query, topK, includeRanges, TRUE, FALSE)
    /\ UNCHANGED <<index, tasks, lastWrite, env, backend, embeddingCache, delivered, produced, stale>>

\* keywordSearch(query, {topK, includeRanges})
KeywordSearch ==
  \E query \in KeywordQueries, topK \in TopKs, includeRanges \in BOOLEAN :
    /\ Ready
    /\ LET queryTerms == SplitWhitespace(ToLowerCase(query))
           results == IF IndexIsEmpty(index) THEN <<>>
                      ELSE StableSort(KeywordResults(index, queryTerms, includeRanges), "score")
           topResults == Slice0(results, topK)
       IN outcome' = [NoOutcome EXCEPT !.op = "keywordSearch", !.status = "ok",
                        !.results = [i \in 1..Len(topResults) |->
                                       FormatKeywordResult(topResults[i])],
                        !.query = query, !.topK = topK, !.includeRanges = includeRanges]
    /\ UNCHANGED <<index, tasks, lastWrite, env, backend, embeddingCache, delivered, produced, stale>>

\* the calls of the service, one at a time
Next ==
  \/ AddToIndex
  \/ AddToIndexRejected
  \/ AddRangesToIndex
  \/ AddRangesToIndexRejected
  \/ ClearIndex
  \/ Search
  \/ SearchBackendDown
  \/ KeywordSearch
  \/ GetStatsCall
  \/ Respond

Spec == Init /\ [][Next]_vars

(* ------------------- statistics of what was ingested ------------------- *)

\* addRangesToIndex with ranges some of which come without their member cells
AddRangeSummariesToIndex ==
  \E ranges \in SeqsUpTo(RangesAndSummaries, MaxBatch) :
    Ingest("addRangesToIndex", ranges, Len(ranges))

NextStats ==
  \/ AddToIndex
  \/ AddRangeSummariesToIndex
  \/ ClearIndex
  \/ GetStatsCall
  \/ Respond

SpecStats == Init /\ [][NextStats]_vars

(* ----------------------- interleaved ingestion ------------------------- *)

\* an ingestion call suspended at the await of its loop
Task(kind, todo) == [kind |-> kind, todo |-> todo]

One(task) == SetToBag({task})

\* the suspended call that resumes is one that began before the latest
\* clearIndex (old) or one that began after it
Resumes(task, old) ==
  IF old THEN BagIn(task, stale)
  ELSE CopiesIn(task, tasks) > CopiesIn(task, stale)

\* addToIndex / addRangesToIndex up to the first await of the loop; an empty
\* batch returns at once
BeginIngest(kind, docs) ==
  /\ Ready
  /\ BagCardinality(tasks) < MaxTasks
  /\ IF Len(docs) = 0
     THEN /\ tasks' = tasks
          /\ outcome' = [NoOutcome EXCEPT !.op = kind, !.status = "ok"]
     ELSE /\ tasks' = tasks (+) One(Task(kind, docs))
          /\ outcome' = NoOutcome
  /\ UNCHANGED <<index, lastWrite, env, backend, embeddingCache, delivered, produced, stale>>

\* the batches of the interleaved calls hold the two versions of Budget!A2
ConcurrentCellBatches == SeqsUpTo({CellRevenue, CellEdited}, MaxBatch)

BeginAddToIndex == \E docs \in ConcurrentCellBatches : BeginIngest("addToIndex", docs)

BeginAddRangesToIndex == \E ranges \in RangeBatches : BeginIngest("addRangesToIndex", ranges)

\* one pass of the loop of a suspended call: the embedding and the labels
\* arrive and index.set runs; after the last document the call returns
\* (replaced: its last index.set found the key already there)
IngestStored ==
  Ready /\ \E task \in BagToSet(tasks), old \in BOOLEAN :
    LET doc == Head(task.todo)
        rest == Tail(task.todo)
        entry == IngestEntry(task.kind, doc, backend)
    IN /\ Resumes(task, old)
       /\ index' = IndexSet(index, entry)
       /\ lastWrite' = [lastWrite EXCEPT ![doc.id] = <<entry, task.kind>>]
       /\ IF Len(rest) = 0
          THEN /\ tasks' = tasks (-) One(task)
               /\ stale' = IF old THEN stale (-) One(task) ELSE stale
               /\ outcome' = [NoOutcome EXCEPT !.op = task.kind, !.status = "ok",
                                               !.replaced = IndexPos(index, doc.id) > 0]
          ELSE /\ tasks' = (tasks (-) One(task)) (+) One(Task(task.kind, rest))
               /\ stale' = IF old THEN (stale (-) One(task)) (+) One(Task(task.kind, rest))
                            ELSE stale
               /\ outcome' = NoOutcome
       /\ UNCHANGED <<env, backend, embeddingCache, delivered, produced>>

\* the embedding request of a suspended call is rejected: the call rejects and
\* the documents it had not reached stay out of the index
IngestFailed ==
  Ready /\ \E task \in BagToSet(tasks), old \in BOOLEAN :
    /\ Resumes(task, old)
    /\ tasks' = tasks (-) One(task)
    /\ stale' = IF old THEN stale (-) One(task) ELSE stale
    /\ outcome' = [NoOutcome EXCEPT !.op = task.kind, !.status = "error",
                                    !.unprocessed = task.todo]
    /\ UNCHANGED <<index, lastWrite, env, backend, embeddingCache, delivered, produced>>

NextAsync ==
  \/ BeginAddToIndex
  \/ BeginAddRangesToIndex
  \/ IngestStored
  \/ IngestFailed
  \/ ClearIndex
  \/ Respond

SpecAsync == Init /\ [][NextAsync]_vars

\* SearchService.clearIndex in a process that keeps track of the ingestion
\* calls suspended when it runs
ClearIndexInFlight ==
  /\ Ready
  /\ index' = <<>>
  /\ lastWrite' = [id \in DocIds |-> <<>>]
  /\ stale' = tasks
  /\ outcome' = [NoOutcome EXCEPT !.op = "clearIndex", !.status = "ok",
                                  !.stats = GetStats(index)]
  /\ UNCHANGED <<tasks, env, backend, embeddingCache, delivered, produced>>

NextClear ==
  \/ BeginAddToIndex
  \/ IngestStored
  \/ IngestFailed
  \/ ClearIndexInFlight
  \/ Respond

SpecClear == Init /\ [][NextClear]_vars

(* ------------------------- interleaved search -------------------------- *)

\* search up to its await of generateEmbedding(query, 'query'): [] at once on
\* an empty index, otherwise the call is suspended (the last entry of todo:
\* the ids the index holds when the call is suspended).  One search is
\* followed at a time, and it asks for MaxTopK results
BeginSearch ==
  \E query \in SemanticQueries, topK \in {MaxTopK}, includeRanges \in BOOLEAN :
    /\ Ready
    /\ IF IndexIsEmpty(index)
       THEN /\ outcome' = SearchOutcome("ok", <<>>, query, topK, includeRanges, FALSE, TRUE)
            /\ tasks' = tasks
       ELSE /\ tasks = EmptyBag
            /\ tasks' = One(Task("search", <<query, topK, includeRanges,
                                              {index[n].id : n \in 1..Len(index)}>>))
            /\ outcome' = NoOutcome
    /\ UNCHANGED <<index, lastWrite, env, backend, embeddingCache, delivered, produced, stale>>

\* a search whose scoring loop is interleaved with clearIndex: the results
\* are those of the index the loop began on, and the index is empty when the
\* call returns
SearchResumesAcrossClear ==
  Ready /\ \E task \in BagToSet(tasks) :
    LET query == task.todo[1]
        topK == task.todo[2]
        includeRanges == task.todo[3]
        queryEmbedding == BackendVector(query, "query", backend)
        queryConcepts == DetectQueryConcepts(query)
    IN /\ tasks' = tasks (-) One(task)
       /\ IF ScanThrows(index, queryEmbedding, includeRanges)
          THEN outcome' = [SearchOutcome("error", <<>>, query, topK, includeRanges, TRUE, TRUE)
                             EXCEPT !.args = <<task.todo[4]>>]
          ELSE \E sorted \in SortByFinalScore(
                               Similarities(env, index, queryEmbedding,
                                            queryConcepts, includeRanges)) :
                 outcome' = [SearchOutcome("ok", FormatSearchResults(Slice0(sorted, topK)),
                                           query, topK, includeRanges, TRUE, TRUE)
                               EXCEPT !.args = <<task.todo[4]>>]
       /\ index' = <<>>
       /\ UNCHANGED <<lastWrite, env, backend, embeddingCache, delivered, produced, stale>>

\* the query embedding arrives and the suspended search goes on to its end
\* without another await: it scores the documents the index holds now, sorts,
\* slices and formats, or throws when a vector has another length than the
\* query's (args: the ids the index held when the call was suspended)
SearchResumes ==
  Ready /\ \E task \in BagToSet(tasks) :
    LET query == task.todo[1]
        topK == task.todo[2]
        includeRanges == task.todo[3]
        queryEmbedding == BackendVector(query, "query", backend)
        queryConcepts == DetectQueryConcepts(query)
    IN /\ tasks' = tasks (-) One(task)
       /\ IF ScanThrows(index, queryEmbedding, includeRanges)
          THEN outcome' = [SearchOutcome("error", <<>>, query, topK, includeRanges, TRUE, TRUE)
                             EXCEPT !.args = <<task.todo[4]>>]
          ELSE \E sorted \in SortByFinalScore(
                               Similarities(env, index, queryEmbedding,
                                            queryConcepts, includeRanges)) :
                 outcome' = [SearchOutcome("ok", FormatSearchResults(Slice0(sorted, topK)),
                                           query, topK, includeRanges, TRUE, TRUE)
                               EXCEPT !.args = <<task.todo[4]>>]
       /\ UNCHANGED <<index, lastWrite, env, backend, embeddingCache, delivered, produced, stale>>

\* the embedding request of a suspended search is rejected, and so is search
SearchRejected ==
  Ready /\ \E task \in BagToSet(tasks) :
    /\ tasks' = tasks (-) One(task)
    /\ outcome' = [SearchOutcome("error", <<>>, task.todo[1], task.todo[2], task.todo[3],
                                 TRUE, FALSE)
                     EXCEPT !.args = <<task.todo[4]>>]
    /\ UNCHANGED <<index, lastWrite, env, backend, embeddingCache, delivered, produced, stale>>

\* addToIndex([doc]) or addRangesToIndex([range]): an ingestion call with one
\* document
AddOneToIndex ==
  \/ \E doc \in CellCatalog : Ingest("addToIndex", <<doc>>, 1)
  \/ \E range \in RangeCatalog : Ingest("addRangesToIndex", <<range>>, 1)

\* a search that is suspended while ingestion calls and clearIndex run
NextSearch ==
  \/ BeginSearch
  \/ SearchResumes
  \/ SearchRejected
  \/ AddOneToIndex
  \/ ClearIndex
  \/ Respond

\* a process started without the weight variables, on either backend
InitSearch == Init /\ env = DefaultEnv

SpecSearch == InitSearch /\ [][NextSearch]_vars

\* a process in which only the environment-independent parts of the services
\* are used
InitFunctions == Init /\ env = DefaultEnv /\ backend = "uniform"

(* ----------------- EmbeddingService.generateEmbedding ------------------ *)

\* what generateEmbedding(text, type) gives its caller; earlier: the vectors
\* the calls that had completed when this one began returned for this text
\* and type
EmbeddingOutcome(status, text, type, vector, requested, earlier) ==
  [NoOutcome EXCEPT !.op = "generateEmbedding", !.status = status,
                    !.args = <<text, type>>, !.value = vector,
                    !.embeddingRequested = requested, !.earlier = earlier]

\* generateEmbedding(text, type) up to its first await after the cache
\* lookup: a cached vector is returned at once, otherwise the call waits for
\* the rate-limit delay and the backend
GenerateEmbedding ==
  /\ Ready
  /\ \E call \in EmbeddingCalls :
       LET text == call[1]
           type == call[2]
           cached == embeddingCache[CacheKey(text, type)]
       IN IF cached # <<>>
          THEN /\ outcome' = EmbeddingOutcome("ok", text, type, cached[1], FALSE,
                                               delivered[call])
               /\ delivered' = [delivered EXCEPT ![call] = @ \cup {cached[1]}]
               /\ tasks' = tasks
          ELSE /\ BagCardinality(tasks) < MaxTasks
               /\ tasks' = tasks (+) One(Task("generateEmbedding",
                                               <<text, type, delivered[call]>>))
               /\ outcome' = NoOutcome
               /\ delivered' = delivered
  /\ UNCHANGED <<index, lastWrite, env, backend, embeddingCache, produced, stale>>

\* the backend answers a waiting call: the vector is cached and returned
EmbeddingArrives ==
  /\ Ready
  /\ \E task \in BagToSet(tasks), embedding \in {<<1, 0>>, <<0, 1>>} :
       LET text == task.todo[1]
           type == task.todo[2]
       IN /\ embeddingCache' = [embeddingCache EXCEPT ![CacheKey(text, type)] = <<embedding>>]
          /\ delivered' = [delivered EXCEPT ![<<text, type>>] = @ \cup {embedding}]
          /\ produced' = [produced EXCEPT ![text] = @ \cup {embedding}]
          /\ tasks' = tasks (-) One(task)
          /\ outcome' = EmbeddingOutcome("ok", text, type, embedding, TRUE, task.todo[3])
  /\ UNCHANGED <<index, lastWrite, env, backend, stale>>

\* the backend fails a waiting call: the error is logged and rethrown, and
\* nothing is cached
EmbeddingFails ==
  /\ Ready
  /\ \E task \in BagToSet(tasks) :
       /\ tasks' = tasks (-) One(task)
       /\ outcome' = EmbeddingOutcome("error", task.todo[1], task.todo[2], <<>>, TRUE,
                                       task.todo[3])
  /\ UNCHANGED <<index, lastWrite, env, backend, embeddingCache, delivered, produced, stale>>

NextEmbedding ==
  \/ GenerateEmbedding
  \/ EmbeddingArrives
  \/ EmbeddingFails
  \/ Respond

SpecEmbedding == InitFunctions /\ [][NextEmbedding]_vars

(* -------------------- functions called on their own ------------------- *)

\* getCellHeaders, the inner loop over the columns of row r (1-based) up to
\* column c: contextRange is 2, the cell itself is passed over and so is a
\* value that is empty or only white space
RECURSIVE ContextOfRow(_, _, _, _)
ContextOfRow(values, cell, r, c) ==
  IF c < Max(1, cell.column - 2) THEN <<>>
  ELSE ContextOfRow(values, cell, r, c - 1)
         \o (IF (r # cell.row \/ c # cell.column) /\ Len(Trim(values[r][c])) > 0
             THEN << [value |-> values[r][c], row |-> r, column |-> c,
                      distance |-> (IF r < cell.row THEN cell.row - r ELSE r - cell.row)
                                   + (IF c < cell.column THEN cell.column - c
                                      ELSE c - cell.column)] >>
             ELSE <<>>)

\* getCellHeaders, the outer loop over the rows up to row r
RECURSIVE ContextOfRows(_, _, _)
ContextOfRows(values, cell, r) ==
  IF r < Max(1, cell.row - 2) THEN <<>>
  ELSE ContextOfRows(values, cell, r - 1)
         \o ContextOfRow(values, cell, r, Min(Len(values[r]), cell.column + 2))

\* a getCellHeaders that looks one row below the cell, not two
GetCellHeadersOneRowBelow(cell, headerInfo, values) ==
  [column |-> IF cell.column <= Len(headerInfo.columnHeaders)
              THEN headerInfo.columnHeaders[cell.column] ELSE <<>>,
   row |-> IF cell.row <= Len(headerInfo.rowHeaders)
           THEN headerInfo.rowHeaders[cell.row] ELSE <<>>,
   context |-> ContextOfRows(values, cell, Min(Len(values), cell.row + 1))]

\* ExcelParserService.getCellHeaders(cell, headerInfo, values); <<>> is null
GetCellHeaders(cell, headerInfo, values) ==
  [column |-> IF cell.column <= Len(headerInfo.columnHeaders)
              THEN headerInfo.columnHeaders[cell.column] ELSE <<>>,
   row |-> IF cell.row <= Len(headerInfo.rowHeaders)
           THEN headerInfo.rowHeaders[cell.row] ELSE <<>>,
   context |-> ContextOfRows(values, cell, Min(Len(values), cell.row + 2))]

\* a function was called with these arguments and returned this value
Returned(op, args, value) ==
  [NoOutcome EXCEPT !.op = op, !.status = "ok", !.args = args, !.value = value]

\* heuristics.js generateEmbeddingText(cell)
HeuristicsEmbeddingText(cell) ==
  Join(  << <<"S", "h", "e", "e", "t", ":", " ">> \o cell.sheetName >>
      \o (IF Len(cell.column) > 0 THEN << <<"C", "o", "l", "u", "m", "n", ":", " ">> \o cell.column >> ELSE <<>>)
      \o (IF Len(cell.row) > 0 THEN << <<"R", "o", "w", ":", " ">> \o cell.row >> ELSE <<>>)
      \o (IF Len(cell.formula) > 0
          THEN << <<"F", "o", "r", "m", "u", "l", "a", ":", " ">> \o cell.formula >>
                 \o (IF cell.parsedFormula.present /\ Len(cell.parsedFormula.type) > 0
                     THEN << <<"T", "y", "p", "e", ":", " ">> \o cell.parsedFormula.type >> ELSE <<>>)
          ELSE IF Len(cell.formattedValue) > 0 THEN << <<"V", "a", "l", "u", "e", ":", " ">> \o cell.formattedValue >>
          ELSE <<>>)
      \o (IF Len(cell.context) > 0
          THEN << <<"C", "o", "n", "t", "e", "x", "t", ":", " ">> \o Join(Slice0(cell.context, 3), <<",", " ">>) >>
          ELSE <<>>),
      <<" ", "-", " ">>)

\* cells with the values of up to MaxContext nearby cells as their context
ContextCells ==
  {[cell EXCEPT !.context = context] :
     cell \in CellCatalog \cup {CellPlain, CellPlainFormula},
     context \in SeqsUpTo({<<"c", "o", "s", "t">>, <<"z", "z">>}, MaxContext)}

\* the value grid sheet_to_json gives for a sheet of GridRows rows and
\* GridColumns columns: every cell holds a text of its own, padded with a
\* blank in the first row, but for one cell that is empty and one that holds
\* a single blank (<<0, 0>>: no such cell)
Grid(emptyAt, blankAt) ==
  LET value(r, c) ==
        IF <<r, c>> = emptyAt THEN <<>>
        ELSE IF <<r, c>> = blankAt THEN <<" ">>
        ELSE (IF r = 1 THEN <<" ">> ELSE <<>>) \o <<"r">> \o DigitText(r) \o <<"c">> \o DigitText(c)
      rowOf(r) == SubSeq([c \in 1..GridColumns |-> value(r, c)], 1, GridColumns)
  IN SubSeq([r \in 1..GridRows |-> rowOf(r)], 1, GridRows)

\* parseSheet's call of getCellHeaders for one cell it does not skip, with
\* the headers detectHeaders found in the grid; the cell that holds a blank
\* is in the first row
GetCellHeadersCall ==
  /\ Ready
  /\ \E emptyAt \in ((1..GridRows) \X (1..GridColumns)) \cup {<<0, 0>>},
        blankAt \in ({1} \X (1..GridColumns)) \cup {<<0, 0>>},
        row \in 1..GridRows, column \in 1..GridColumns :
       LET values == Grid(emptyAt, blankAt)
       IN /\ Len(values[row][column]) > 0
          /\ outcome' = Returned("getCellHeaders", <<values, row, column>>,
                                 GetCellHeaders([row |-> row, column |-> column],
                                                DetectHeaders(values), values))
  /\ UNCHANGED <<index, tasks, lastWrite, env, backend, embeddingCache, delivered, produced, stale>>

\* heuristics.js generateEmbeddingText called on a cell
HeuristicsEmbeddingTextCall ==
  /\ Ready
  /\ \E cell \in ContextCells :
       outcome' = Returned("generateEmbeddingText", <<cell>>, HeuristicsEmbeddingText(cell))
  /\ UNCHANGED <<index, tasks, lastWrite, env, backend, embeddingCache, delivered, produced, stale>>

\* detectBusinessConcepts called on a cell
DetectBusinessConceptsCall ==
  /\ Ready
  /\ \E cell \in ContextCells :
       outcome' = Returned("detectBusinessConcepts", <<cell>>, DetectBusinessConcepts(cell))
  /\ UNCHANGED <<index, tasks, lastWrite, env, backend, embeddingCache, delivered, produced, stale>>

\* the lists of concepts the detectors build: [...new Set(concepts)] has no
\* duplicates
ConceptLists ==
  {s \in SeqsUpTo({<<"r", "e", "v", "e", "n", "u", "e">>, <<"c", "o", "s", "t">>, <<"p", "r", "o", "f", "i", "t", "a", "b", "i", "l", "i", "t", "y">>}, MaxConcepts) :
     \A i, j \in 1..Len(s) : s[i] = s[j] => i = j}

\* calculateConceptMatch(cellConcepts, queryConcepts)
CalculateConceptMatchCall ==
  /\ Ready
  /\ \E cellConcepts \in ConceptLists, queryConcepts \in ConceptLists :
       outcome' = Returned("calculateConceptMatch", <<cellConcepts, queryConcepts>>,
                           CalculateConceptMatch(cellConcepts, queryConcepts))
  /\ UNCHANGED <<index, tasks, lastWrite, env, backend, embeddingCache, delivered, produced, stale>>

\* detectFormulaComplexity(parsedFormula) on the parsedFormula values a
\* document can carry: none, the result of a parse failure, or a successful parse with some functions and a complexity
\* from 0 to beyond maxComplexity (counted in halves)
DetectFormulaComplexityCall ==
  /\ Ready
  /\ \E parsedFormula \in
          {NoParsedFormula, ParseFailure}
            \cup {ParseSuccess(functions, complexity2, {}) :
                    functions \in SeqsUpTo({"SUM", "VLOOKUP"}, MaxFunctions),
                    complexity2 \in 0..(2 * MaxComplexity + 2)} :
       outcome' = Returned("detectFormulaComplexity", <<parsedFormula>>,
                           DetectFormulaComplexity(parsedFormula))
  /\ UNCHANGED <<index, tasks, lastWrite, env, backend, embeddingCache, delivered, produced, stale>>


\* the cells of a sheet whose non-empty cells are at these positions of the
\* grid (numbered row by row, as parseSheet pushes the cells).  columnHeaders
\* is what detectHeaders returns, the texts of the non-empty cells of the
\* first row one after the other; the other cells hold their position
RECURSIVE CellsAt(_, _, _, _)
CellsAt(sheetName, columnHeaders, positions, n) ==
  IF n = 0 THEN <<>>
  ELSE LET row == ((n - 1) \div MaxColumns) + 1
           column == ((n - 1) % MaxColumns) + 1
           cellValue == IF row = 1
                        THEN columnHeaders[Cardinality({p \in positions : p <= n})]
                        ELSE DigitText(row) \o DigitText(column)
       IN CellsAt(sheetName, columnHeaders, positions, n - 1)
          \o (IF n \in positions
              THEN <<ParsedCell(sheetName, columnHeaders, row, column, cellValue)>>
              ELSE <<>>)

\* createRangeDocuments(cells, headerInfo) on the non-empty cells of a sheet
CreateRangeDocumentsCall ==
  /\ Ready
  /\ \E positions \in SUBSET (1..(MaxRows * MaxColumns)) :
       \E columnHeaders \in [1..Cardinality(positions \cap (1..MaxColumns)) -> {<<"R", "e", "v", "e", "n", "u", "e">>, <<"u", "n", "k", "n", "o", "w", "n">>}] :
         LET cells == CellsAt(<<"P", "l", "a", "n">>, columnHeaders, positions, MaxRows * MaxColumns)
         IN outcome' = Returned("createRangeDocuments", <<cells>>, CreateRangeDocuments(cells))
  /\ UNCHANGED <<index, tasks, lastWrite, env, backend, embeddingCache, delivered, produced, stale>>


\* the workbooks of an upload: the names of their sheets, which are different
\* inside one workbook, in the order of workbook.SheetNames
Workbooks ==
  {names \in SeqsUpTo({<<"P", "l", "a", "n">>, <<"P", "&", "L">>, <<"P", " ", "L">>}, MaxSheets) :
     /\ Len(names) > 0
     /\ \A i, j \in 1..Len(names) : names[i] = names[j] => i = j}

\* allCells of the upload route: the cells of every sheet of every file, one
\* after the other; every sheet has its first filled cells of the first row
\* non-empty
RECURSIVE AllCells(_, _)
AllCells(files, filled) ==
  IF Len(files) = 0 THEN <<>>
  ELSE LET names == Head(files)
           sheetCells == [s \in 1..Len(names) |->
                           CellsAt(names[s], [c \in 1..filled |-> <<"R", "e", "v", "e", "n", "u", "e">>],
                                   1..filled, filled)]
       IN Concat(sheetCells) \o AllCells(Tail(files), filled)

\* the index after addToIndex(allCells) on an empty index when every
\* embedding and label arrives: this.index.set(doc.id, ...) for each document
RECURSIVE IndexOfUpload(_)
IndexOfUpload(allCells) ==
  IF Len(allCells) = 0 THEN <<>>
  ELSE IndexSet(IndexOfUpload(SubSeq(allCells, 1, Len(allCells) - 1)),
                allCells[Len(allCells)])

\* POST /api/sheets/upload with parsable files: parseExcelFile for each file,
\* addToIndex(allCells), and the stats of the response
UploadCall ==
  /\ Ready
  /\ \E files \in SeqsUpTo(Workbooks, MaxFiles), filled \in 1..MaxColumns :
       /\ Len(files) > 0
       /\ LET allCells == AllCells(files, filled)
          IN outcome' = Returned("upload", <<files, filled>>,
                                 [allCells |-> allCells,
                                  totalCells |-> Len(allCells),
                                  searchIndexSize |-> Len(IndexOfUpload(allCells))])
  /\ UNCHANGED <<index, tasks, lastWrite, env, backend, embeddingCache, delivered, produced, stale>>

\* generateLabels(cell) in a process started with or without OPENAI_API_KEY,
\* the LLM backend failing or answering if it is asked
GenerateLabelsCall ==
  /\ Ready
  /\ \E cell \in CellCatalog \cup {CellPlain, CellPlainFormula},
        apiKey \in BOOLEAN, llm \in {LlmFailure, [ok |-> TRUE, labels |-> << <<"g", "r", "o", "w", "t", "h">> >>]} :
       outcome' = Returned("generateLabels", <<cell, apiKey, llm>>, GenerateLabels(cell, llm))
  /\ UNCHANGED <<index, tasks, lastWrite, env, backend, embeddingCache, delivered, produced, stale>>

\* the vectors given to calculateCosineSimilarity: up to MaxDimension small
\* integers
Vectors == SeqsUpTo({-1, 0, 1, 2}, MaxDimension)

\* calculateCosineSimilarity(vectorA, vectorB): throws when the lengths
\* differ
CalculateCosineSimilarityCall ==
  /\ Ready
  /\ \E vectorA \in Vectors, vectorB \in Vectors :
       outcome' =
         IF CosineThrows(vectorA, vectorB)
         THEN [NoOutcome EXCEPT !.op = "calculateCosineSimilarity", !.status = "error",
                                !.args = <<vectorA, vectorB>>]
         ELSE Returned("calculateCosineSimilarity", <<vectorA, vectorB>>,
                       RoundedCosineSimilarity(vectorA, vectorB))
  /\ UNCHANGED <<index, tasks, lastWrite, env, backend, embeddingCache, delivered, produced, stale>>

\* determineFormulaType on the ast of a formula with up to MaxFunctions
\* different functions, among them one that no rule names, and any operators
DetermineFormulaTypeCall ==
  /\ Ready
  /\ \E functions \in SUBSET {"SUM", "AVERAGE", "COUNT", "MAX", "MIN", "IF", "IFS",
                               "VLOOKUP", "HLOOKUP", "INDEX", "MATCH", "XLOOKUP",
                               "RATE", "CAGR", "PMT", "FV", "PV", "ABS"},
        operators \in SUBSET {"/", "*", "+", "-", "^"} :
       /\ Cardinality(functions) <= MaxFunctions
       /\ outcome' = Returned("determineFormulaType", <<functions, operators>>,
                              DetermineFormulaType(functions, operators))
  /\ UNCHANGED <<index, tasks, lastWrite, env, backend, embeddingCache, delivered, produced, stale>>

NextFunctions ==
  \/ CalculateConceptMatchCall
  \/ DetermineFormulaTypeCall
  \/ GetCellHeadersCall
  \/ HeuristicsEmbeddingTextCall
  \/ DetectBusinessConceptsCall
  \/ DetectFormulaComplexityCall
  \/ CreateRangeDocumentsCall
  \/ UploadCall
  \/ GenerateLabelsCall
  \/ CalculateCosineSimilarityCall
  \/ Respond

SpecFunctions == InitFunctions /\ [][NextFunctions]_vars

(* ------------------------------ properties ----------------------------- *)

IngestOps == {"addToIndex", "addRangesToIndex"}

\* an ingestion call has returned, its embedding request for one item rejected
IngestFailure == outcome.op \in IngestOps /\ outcome.status = "error"

\* the position in the batch of the item whose embedding request was rejected
FailedAt == Len(outcome.batch) - Len(outcome.unprocessed) + 1

\* a search call has returned a list
SearchReturned == outcome.op = "search" /\ outcome.status = "ok"

\* a keywordSearch call has returned a list
KeywordSearchReturned == outcome.op = "keywordSearch" /\ outcome.status = "ok"

\* C1: when the provider fails for one item of a batch, only that item is
\* skipped: every item of the batch with another id is in the index when the
\* call ends.
C1_FailureSkipsOneItem ==
  IngestFailure =>
    \A i \in 1..Len(outcome.batch) :
      outcome.batch[i].id # outcome.batch[FailedAt].id =>
        IndexPos(index, outcome.batch[i].id) > 0

\* C2: without a clear in between, the index holds one document per id
\* ingested, its size is the number of distinct ids ingested, and the document
\* under an id is the one the most recent write of that id stored.
C2_UpsertLastWriteWins ==
  /\ \A i, j \in 1..Len(index) : index[i].id = index[j].id => i = j
  /\ Len(index) = Cardinality({id \in DocIds : lastWrite[id] # <<>>})
  /\ \A id \in DocIds :
       lastWrite[id] # <<>> =>
         \E i \in 1..Len(index) : index[i] = lastWrite[id][1]

\* C2 happens: a call has returned whose last write replaced the document
\* Budget!A2 had in the index, while another call is in flight; the index
\* holds the formula it wrote and the range beside it
C2_Overwritten ==
  /\ outcome.op = "addToIndex"
  /\ outcome.status = "ok"
  /\ outcome.replaced
  /\ BagCardinality(tasks) > 0
  /\ Len(index) = 2
  /\ lastWrite["budget_2_1"] # <<>>
  /\ lastWrite["budget_2_1"][1].formula = <<"=", "B", "2", "/", "C", "2">>

\* C3: on an empty index search and keywordSearch return [] and raise no
\* error, and search does not ask the embedding provider for anything.
C3_EmptyIndexGivesEmptyList ==
  (outcome.op \in {"search", "keywordSearch"} /\ Len(index) = 0) =>
    /\ outcome.status = "ok"
    /\ outcome.results = <<>>
    /\ ~outcome.embeddingRequested

\* C3 happens: search was called on an empty index while the embedding
\* provider was failing
C3_EmptySearchProviderDown ==
  /\ outcome.op = "search"
  /\ Len(index) = 0
  /\ ~outcome.providerUp
  /\ outcome.status = "ok"

\* C4: search returns at most min(k, index size) results for every topK value
\* k the caller passes (no list is shorter than empty, so at most 0 results
\* when k is negative).
C4_AtMostTopK ==
  SearchReturned =>
    Len(outcome.results) <= Max(0, Min(outcome.topK, Len(index)))

C6_SortedByFinalScore ==
  SearchReturned =>
    \A i, j \in 1..Len(outcome.results) :
      (i < j /\ ~outcome.results[i].relevance.nan /\ ~outcome.results[j].relevance.nan) =>
        /\ outcome.results[i].relevance.v >= outcome.results[j].relevance.v
        /\ outcome.results[i].relevance.v = outcome.results[j].relevance.v =>
             IndexPos(index, outcome.results[i].id) < IndexPos(index, outcome.results[j].id)

\* the weight the configuration gives: the configured value whenever one is
\* configured, the default otherwise
ConfiguredWeight(e, fallback) == IF e.set THEN e.v ELSE fallback

\* C7: finalScore is w_sem*similarity + w_concept*conceptMatch +
\* w_formula*formulaComplexity + w_sheet*sheetImportance with each weight the
\* configured value whenever one is configured and the default 0.7 / 0.15 /
\* 0.1 / 0.05 otherwise (stated for results whose components are numbers).
C7_ConfiguredWeightsUsed ==
  SearchReturned =>
    \A i \in 1..Len(outcome.results) :
      LET r == outcome.results[i]
      IN ~r.formulaComplexity.nan =>
           r.relevance =
             Num(  ConfiguredWeight(env.SEMANTIC_WEIGHT, 70) * r.similarity
                 + ConfiguredWeight(env.CONCEPT_MATCH_WEIGHT, 15) * r.conceptMatch
                 + ConfiguredWeight(env.FORMULA_COMPLEXITY_WEIGHT, 10) * r.formulaComplexity.v
                 + ConfiguredWeight(env.SHEET_IMPORTANCE_WEIGHT, 5) * r.sheetImportance)

\* a scanned document's embedding has another length than the query's
DimensionMismatch ==
  \E i \in 1..Len(index) :
    /\ ~(~outcome.includeRanges /\ index[i].hasCells)
    /\ Len(index[i].embedding) # Len(BackendVector(outcome.query, "query", backend))

\* C8: when a scanned document's embedding has another length than the
\* query embedding, search fails with an error and returns no list, and the
\* failed call leaves the index as it was.
C8_MismatchAbortsSearch ==
  /\ [](  (outcome.op = "search" /\ outcome.providerUp /\ DimensionMismatch)
        => (outcome.status = "error" /\ outcome.results = <<>>))
  /\ [][(outcome'.op = "search" /\ outcome'.status = "error") => index' = index]_vars

\* C8 happens: search scanned a cell and a range whose vectors differ in
\* length, and failed
C8_MismatchSeen ==
  /\ outcome.op = "search"
  /\ outcome.providerUp
  /\ outcome.includeRanges
  /\ Len(index) = 2
  /\ DimensionMismatch
  /\ outcome.status = "error"

\* C9: every result of keywordSearch comes from a document whose raw keyword
\* score is greater than 0 and carries at least one match description.
C9_OnlyPositiveScores ==
  KeywordSearchReturned =>
    \A i \in 1..Len(outcome.results) :
      LET r == outcome.results[i]
          doc == index[IndexPos(index, r.id)]
      IN /\ r.score > 0
         /\ Len(r.reasons) > 0
         /\ SumWeights(KeywordHits(doc, SplitWhitespace(ToLowerCase(outcome.query)))) > 0

\* C9 happens: keywordSearch returned one document of a two-document index
\* and left the other, whose score is 0, out
C9_ZeroScoreLeftOut ==
  /\ KeywordSearchReturned
  /\ outcome.includeRanges
  /\ outcome.topK >= 2
  /\ Len(index) = 2
  /\ Len(outcome.results) = 1

\* the words of a query: what is left between its runs of whitespace
QueryWords(query) == NonEmpty(SplitWhitespace(ToLowerCase(query)))

\* a word occurs in the column header, row header, formatted value, formula
\* text or a label of the document
WordOccurs(doc, word) ==
  \/ Includes(ToLowerCase(doc.column), word)
  \/ Includes(ToLowerCase(doc.row), word)
  \/ Includes(ToLowerCase(doc.formattedValue), word)
  \/ Includes(ToLowerCase(doc.formula), word)
  \/ \E k \in 1..Len(doc.labels) : Includes(ToLowerCase(doc.labels[k]), word)

\* C10: when no word of the query occurs in any indexed document,
\* keywordSearch returns [], whatever whitespace the query contains (stated
\* for the queries that have a word).
C10_NoWordNoResult ==
  (/\ KeywordSearchReturned
   /\ Len(QueryWords(outcome.query)) > 0
   /\ \A i \in 1..Len(index) :
        \A k \in 1..Len(QueryWords(outcome.query)) :
          ~WordOccurs(index[i], QueryWords(outcome.query)[k]))
    => outcome.results = <<>>

\* the number of query terms that are substrings of a field, whatever their
\* case; a missing field contains none
TermsIn(text, terms) ==
  IF Len(text) = 0 THEN 0
  ELSE Cardinality({k \in 1..Len(terms) : Includes(ToLowerCase(text), terms[k])})

RECURSIVE TermsInLabels(_, _)
TermsInLabels(labels, terms) ==
  IF Len(labels) = 0 THEN 0
  ELSE TermsIn(Head(labels), terms) + TermsInLabels(Tail(labels), terms)

\* the raw keyword score of a document, in tenths: 2 per term in the column
\* header, 1.5 in the row header, 1 in the formatted value, 1.5 in the
\* formula text and 1.5 per term in each label
DescribedScore(doc, terms) ==
    20 * TermsIn(doc.column, terms) + 15 * TermsIn(doc.row, terms)
  + 10 * TermsIn(doc.formattedValue, terms) + 15 * TermsIn(doc.formula, terms)
  + 15 * TermsInLabels(doc.labels, terms)

\* the scanned documents whose raw keyword score is positive
Matching(idx, terms, includeRanges) ==
  {i \in 1..Len(idx) : /\ ~(~includeRanges /\ idx[i].hasCells)
                       /\ DescribedScore(idx[i], terms) > 0}

\* C11: the raw keyword score of a result is the sum of the weights of its
\* fields over the query terms they contain, its relevance is that score / 10
\* without clamping, and the results are the topK best-scoring matching
\* documents in non-increasing score order.
C11_KeywordScoreOrderAndCut ==
  KeywordSearchReturned =>
    LET terms == SplitWhitespace(ToLowerCase(outcome.query))
        rs == outcome.results
        matching == Matching(index, terms, outcome.includeRanges)
    IN /\ \A i \in 1..Len(rs) :
            /\ IndexPos(index, rs[i].id) \in matching
            /\ rs[i].score = DescribedScore(index[IndexPos(index, rs[i].id)], terms)
            /\ rs[i].relevance = Num(rs[i].score * 10)
       /\ \A i, j \in 1..Len(rs) : i < j => rs[i].score >= rs[j].score
       /\ Len(rs) = Min(Max(outcome.topK, 0), Cardinality(matching))
       /\ \A m \in matching :
            (\A i \in 1..Len(rs) : rs[i].id # index[m].id) =>
              \A i \in 1..Len(rs) : rs[i].score >= DescribedScore(index[m], terms)

\* the same statement for the calls whose topK is not negative
C11_ForNonNegativeTopK ==
  outcome.topK >= 0 => C11_KeywordScoreOrderAndCut

\* the ids whose latest write since the last clear was made by this call
IngestedBy(kind) ==
  {id \in DocIds : lastWrite[id] # <<>> /\ lastWrite[id][2] = kind}

\* C12: getStats().ranges is the number of indexed documents ingested by
\* addRangesToIndex, getStats().cells the number ingested by addToIndex, and
\* totalDocuments = cells + ranges = the size of the index, whatever optional
\* fields the documents carry.
C12_StatsSplitByIngestion ==
  outcome.op = "getStats" =>
    /\ outcome.stats.ranges = Cardinality(IngestedBy("addRangesToIndex"))
    /\ outcome.stats.cells = Cardinality(IngestedBy("addToIndex"))
    /\ outcome.stats.totalDocuments = outcome.stats.cells + outcome.stats.ranges
    /\ outcome.stats.totalDocuments = Len(index)

\* C13: right after clearIndex() the index is empty, whatever it held; on
\* the emptied index getStats() reports 0 documents, 0 cells and 0 ranges,
\* and search and keywordSearch return [].
C13_ClearEmptiesEverything ==
  /\ outcome.op = "clearIndex" => Len(index) = 0
  /\ (outcome.op = "getStats" /\ Len(index) = 0) =>
       outcome.stats = [totalDocuments |-> 0, cells |-> 0, ranges |-> 0]
  /\ (outcome.op \in {"search", "keywordSearch"} /\ Len(index) = 0) =>
       (outcome.status = "ok" /\ outcome.results = <<>>)

\* C13 happens: clearIndex has just emptied an index that held cells and a
\* range
C13_ClearedMixedIndex ==
  /\ outcome.op = "clearIndex"
  /\ outcome.stats.cells >= 2
  /\ outcome.stats.ranges >= 1
  /\ Len(index) = 0

\* the set of the entries of a list
Entries(list) == {list[i] : i \in 1..Len(list)}

\* C14: calculateConceptMatch is |labels /\ queryConcepts| over
\* max(|labels|, |queryConcepts|), 0 when either list is empty, always within
\* [0,1], and 1 when both lists hold the same concepts.
C14_ConceptMatchRatio ==
  outcome.op = "calculateConceptMatch" =>
    LET labels == outcome.args[1]
        queryConcepts == outcome.args[2]
        common == Entries(labels) \cap Entries(queryConcepts)
    IN /\ outcome.value =
            IF Len(labels) = 0 \/ Len(queryConcepts) = 0 THEN 0
            ELSE (Cardinality(common) * 1000) \div Max(Len(labels), Len(queryConcepts))
       /\ outcome.value \in 0..1000
       /\ (Len(labels) > 0 /\ Entries(labels) = Entries(queryConcepts)) =>
            outcome.value = 1000

\* C14 happens: one of two query concepts is the document's only label, and
\* the match is a half
C14_HalfMatch ==
  /\ outcome.op = "calculateConceptMatch"
  /\ Len(outcome.args[1]) = 1
  /\ Len(outcome.args[2]) = 2
  /\ outcome.value = 500

\* C15: for every parsedFormula a document can carry, the formulaComplexity
\* detectFormulaComplexity gives is a number within [0,1].
C15_ComplexityWithinUnitInterval ==
  outcome.op = "detectFormulaComplexity" =>
    (~outcome.value.nan /\ outcome.value.v \in 0..1000)

\* the same statement without the parsedFormula of a parse failure
C15_ForParsedFormulas ==
  (outcome.op = "detectFormulaComplexity" /\ outcome.args[1] # ParseFailure) =>
    (~outcome.value.nan /\ outcome.value.v \in 0..1000)

\* C16: a document whose formula failed to parse is ranked by search with
\* formulaComplexity 0, and the search completes without error.
C16_ParseFailureRanksAsZero ==
  (outcome.op = "search" /\ outcome.providerUp /\ ~DimensionMismatch) =>
    /\ outcome.status = "ok"
    /\ \A i \in 1..Len(outcome.results) :
         index[IndexPos(index, outcome.results[i].id)].parsedFormula = ParseFailure
           => outcome.results[i].formulaComplexity = Num(0)

\* the properties C17 gives every Range
WellFormedRange(range) ==
  LET members == range.cells
      rows == {members[i].row : i \in 1..Len(members)}
      columns == {members[i].column : i \in 1..Len(members)}
  IN /\ Len(members) >= 2
     /\ \A i, j \in 1..Len(members) :
          /\ members[i].sheetName = members[j].sheetName
          /\ members[i].header = members[j].header
     /\ \A i \in 1..Len(members) :
          /\ range.startRow <= members[i].row /\ members[i].row <= range.endRow
          /\ range.startColumn <= members[i].column /\ members[i].column <= range.endColumn
     /\ {range.startRow, range.endRow} \subseteq rows
     /\ {range.startColumn, range.endColumn} \subseteq columns
     /\ Len(range.sampleValues) <= 5

\* C17: every Range createRangeDocuments returns has at least 2 member
\* cells, all of one sheet and with one column header, its start and end row
\* and column are the least and greatest of its members, and it has at most
\* 5 sampleValues.
C17_RangesAreWellFormed ==
  outcome.op = "createRangeDocuments" =>
    \A k \in 1..Len(outcome.value) : WellFormedRange(outcome.value[k])

\* the same statement for sheets none of whose column headers is the text
\* unknown
C17_WithoutHeaderUnknown ==
  (/\ outcome.op = "createRangeDocuments"
   /\ \A i \in 1..Len(outcome.args[1]) : outcome.args[1][i].header # <<"u", "n", "k", "n", "o", "w", "n">>)
    => \A k \in 1..Len(outcome.value) : WellFormedRange(outcome.value[k])

\* the LLM label provider is available and its call succeeds
ProviderAnswers == outcome.args[2] /\ outcome.args[3].ok

\* C18: generateLabels returns the Concept Detector's tags with method
\* 'heuristic' and confidence 0.8 when there are any; otherwise the LLM
\* provider's labels with method 'llm' when the API key is configured and the
\* call succeeds; otherwise the basic labels with confidence 0.5, never an
\* empty list; and it never rejects.
C18_LabelPrecedence ==
  outcome.op = "generateLabels" =>
    LET tags == DetectBusinessConcepts(outcome.args[1])
        labels == outcome.value
    IN /\ outcome.status = "ok"
       /\ Len(tags) > 0 =>
            (labels.labels = tags /\ labels.method = "heuristic" /\ labels.confidence = 800)
       /\ (Len(tags) = 0 /\ ProviderAnswers) =>
            (labels.labels = outcome.args[3].labels /\ labels.method = "llm")
       /\ (Len(tags) = 0 /\ ~ProviderAnswers) =>
            (labels.method = "basic" /\ labels.confidence = 500 /\ Len(labels.labels) > 0)

\* the same statement for the calls in which the provider is not available
\* or fails
C18_WithoutProvider ==
  ~(outcome.op = "generateLabels" /\ ProviderAnswers) => C18_LabelPrecedence

\* a call of calculateCosineSimilarity has ended, and its two arguments
CosineCalled == outcome.op = "calculateCosineSimilarity"
CosineWithItself ==
  /\ CosineCalled
  /\ outcome.args[1] = outcome.args[2]
  /\ \E i \in 1..Len(outcome.args[1]) : outcome.args[1][i] # 0

\* the floating-point number 1
FloatOne == [sign |-> 1, m |-> Pow2(Precision - 1), e |-> 1 - Precision]

\* a positive number within 4 * 2^-Precision of 1 (for JavaScript numbers,
\* within 2 * Number.EPSILON)
NearOne(x) ==
  /\ x.sign = 1
  /\ \/ x.e = -Precision /\ Pow2(Precision) - x.m <= 4
     \/ x.e = 1 - Precision /\ 2 * (x.m - Pow2(Precision - 1)) <= 4

\* what C19 says of both orders: they fail alike when the lengths differ,
\* give the same number otherwise, and give 0 when a vector is all zeros
CosineSymmetric ==
  CosineCalled =>
    /\ outcome.status = "error" <=> Len(outcome.args[1]) # Len(outcome.args[2])
    /\ outcome.status = "error" <=> CosineThrows(outcome.args[2], outcome.args[1])
    /\ outcome.status = "ok" =>
         /\ outcome.value = RoundedCosineSimilarity(outcome.args[2], outcome.args[1])
         /\ (\E k \in 1..2 : \A i \in 1..Len(outcome.args[k]) : outcome.args[k][i] = 0)
              => outcome.value = FloatZero

EmbeddingReturned == outcome.op = "generateEmbedding" /\ outcome.status = "ok"

\* C20: once a generateEmbedding(text, kind) call has completed
\* successfully, every later call with the same text and kind returns the
\* same vector without calling the backend again; a failed call stores
\* nothing in the cache.
C20_LaterCallsServedFromCache ==
  /\ [](  (EmbeddingReturned /\ outcome.earlier # {})
        => (outcome.earlier = {outcome.value} /\ ~outcome.embeddingRequested))
  /\ [][(outcome'.op = "generateEmbedding" /\ outcome'.status = "error")
          => embeddingCache' = embeddingCache]_vars

\* the parts of C20 that hold: a call that returns without asking the
\* backend returns the vector cached under its key and leaves the cache as it
\* was, a call that asks the backend began when no call for its text and
\* kind had completed, and a failed call leaves the cache as it was
C20_CacheHitsAndFailures ==
  /\ []((EmbeddingReturned /\ ~outcome.embeddingRequested)
          => embeddingCache[CacheKey(outcome.args[1], outcome.args[2])] = <<outcome.value>>)
  /\ []((outcome.op = "generateEmbedding" /\ outcome.embeddingRequested)
          => outcome.earlier = {})
  /\ [][(outcome'.op = "generateEmbedding"
           /\ (outcome'.status = "error" \/ ~outcome'.embeddingRequested))
          => embeddingCache' = embeddingCache]_vars

\* the calls that only read the index
ReadOps == {"search", "keywordSearch", "getStats"}

\* the ids of the documents the ingestion call that has just returned stored
StoredIds(o) ==
  {o.batch[n].id : n \in 1..(Len(o.batch) - Len(o.unprocessed))}

\* C21: search, keywordSearch and getStats leave every document of the index
\* as it is, and a stored document stays in the index with the same
\* embedding and labels until an ingest of its id overwrites it or clearIndex
\* removes it.
C21_ReadsLeaveIndexAlone ==
  [][/\ outcome'.op \in ReadOps => index' = index
     /\ \A n \in 1..Len(index) :
          LET id == index[n].id
              now == IndexPos(index', id)
          IN /\ now = 0 => outcome'.op = "clearIndex"
             /\ (now > 0 /\ index'[now] # index[n]) =>
                   (outcome'.op \in IngestOps /\ id \in StoredIds(outcome'))]_vars

\* C21 happens: a search has returned results from an index of two documents
C21_SearchedTwoDocuments ==
  /\ SearchReturned
  /\ Len(outcome.results) = 2
  /\ Len(index) = 2

\* the classification as the description orders it
DescribedFormulaType(functions, operators) ==
  IF functions \cap {"SUM", "AVERAGE", "COUNT", "MAX", "MIN"} # {} THEN <<"a", "g", "g", "r", "e", "g", "a", "t", "i", "o", "n">>
  ELSE IF functions \cap {"IF", "IFS"} # {} THEN <<"c", "o", "n", "d", "i", "t", "i", "o", "n", "a", "l">>
  ELSE IF functions \cap {"VLOOKUP", "HLOOKUP", "INDEX", "MATCH", "XLOOKUP"} # {} THEN <<"l", "o", "o", "k", "u", "p">>
  ELSE IF "/" \in operators /\ functions = {} THEN <<"p", "e", "r", "c", "e", "n", "t", "a", "g", "e">>
  ELSE IF operators \cap {"*", "+", "-"} # {} /\ functions = {} THEN <<"c", "a", "l", "c", "u", "l", "a", "t", "i", "o", "n">>
  ELSE IF functions \cap {"RATE", "CAGR", "PMT", "FV", "PV"} # {} THEN <<"f", "i", "n", "a", "n", "c", "i", "a", "l">>
  ELSE <<"o", "t", "h", "e", "r">>

FormulaTypeCalled == outcome.op = "determineFormulaType"

\* C22: determineFormulaType gives, for every set of functions and of
\* operators, the type of the first matching rule of the described order:
\* aggregation, conditional (IF family), lookup, percentage (division, no
\* function), calculation (* + -, no function), financial, other.
C22_TypeByDescribedPriority ==
  FormulaTypeCalled =>
    outcome.value = DescribedFormulaType(outcome.args[1], outcome.args[2])

\* the part of C22 that holds: the types agree whenever IFS is not among the
\* functions and a formula with + or - has either no function or one of the
\* aggregation, IF and lookup functions
C22_WithoutIfsAndSignsBesideFunctions ==
  (/\ FormulaTypeCalled
   /\ "IFS" \notin outcome.args[1]
   /\ (outcome.args[2] \cap {"+", "-"} # {} =>
         \/ outcome.args[1] = {}
         \/ outcome.args[1] \cap {"SUM", "AVERAGE", "COUNT", "MAX", "MIN", "IF", "VLOOKUP",
                                  "HLOOKUP", "INDEX", "MATCH", "XLOOKUP"} # {}))
    => outcome.value = DescribedFormulaType(outcome.args[1], outcome.args[2])

\* C23: for every cell, the text addToIndex sends to the embedding provider
\* is the text heuristics.js generateEmbeddingText builds: sheet, column
\* header, row header, formula with its type or else the value, and the first
\* three context values.
C23_IngestSendsCanonicalText ==
  outcome.op = "generateEmbeddingText" =>
    IngestText("addToIndex", outcome.args[1]) = outcome.value

\* the part of C23 that holds: the two texts are the same for a cell without
\* a row header, a formula type and context values
C23_ForCellsWithoutRowTypeContext ==
  (/\ outcome.op = "generateEmbeddingText"
   /\ Len(outcome.args[1].row) = 0
   /\ Len(outcome.args[1].context) = 0
   /\ (Len(outcome.args[1].formula) > 0 => Len(outcome.args[1].parsedFormula.type) = 0))
    => IngestText("addToIndex", outcome.args[1]) = outcome.value

\* the tags in the order of their pattern groups
TagOrder ==
  << <<"r", "e", "v", "e", "n", "u", "e">>, <<"c", "o", "s", "t">>, <<"p", "r", "o", "f", "i", "t", "a", "b", "i", "l", "i", "t", "y">>, <<"p", "e", "r", "c", "e", "n", "t", "a", "g", "e">>, <<"g", "r", "o", "w", "t", "h">>, <<"b", "u", "d", "g", "e", "t">>,
     <<"t", "i", "m", "e", "_", "s", "e", "r", "i", "e", "s">>, <<"f", "i", "n", "a", "n", "c", "i", "a", "l", "_", "r", "a", "t", "i", "o">>, <<"l", "o", "o", "k", "u", "p">>, <<"a", "g", "g", "r", "e", "g", "a", "t", "i", "o", "n">>, <<"c", "o", "n", "d", "i", "t", "i", "o", "n", "a", "l">> >>

\* a list of different tags in the order of the pattern groups
InTagOrder(tags) ==
  \A i \in 1..Len(tags) :
    \E k \in 1..Len(TagOrder) :
      /\ TagOrder[k] = tags[i]
      /\ \A j \in 1..(i - 1) : \E l \in 1..(k - 1) : TagOrder[l] = tags[j]

\* C24: the tags detectBusinessConcepts returns depend, of the context, only
\* on its first three values: a cell gets the tags of the same cell with the
\* context cut after the third entry; the list has no duplicates and follows
\* the order of the pattern groups.
C24_TagsFromFirstThreeContextValues ==
  outcome.op = "detectBusinessConcepts" =>
    /\ outcome.value =
         DetectBusinessConcepts([outcome.args[1] EXCEPT !.context = Slice0(@, 3)])
    /\ InTagOrder(outcome.value)

\* the part of C24 that holds: the list has no duplicates, and with at most
\* three context values the tags are those of the described text
C24_WithUpToThreeContextValues ==
  outcome.op = "detectBusinessConcepts" =>
    /\ InTagOrder(outcome.value)
    /\ Len(outcome.args[1].context) <= 3 =>
         outcome.value =
           DetectBusinessConcepts([outcome.args[1] EXCEPT !.context = Slice0(@, 3)])

GetCellHeadersCalled == outcome.op = "getCellHeaders"

\* the cells of the grid in row-major order, as [value, row, column]
RowMajor(values) ==
  LET width == Len(values[1])
  IN [k \in 1..(Len(values) * width) |->
        [value |-> values[((k - 1) \div width) + 1][((k - 1) % width) + 1],
         row |-> ((k - 1) \div width) + 1,
         column |-> ((k - 1) % width) + 1]]

Distance(a, b) == IF a < b THEN b - a ELSE a - b

\* the described context of the cell at (row, column): the cells of the grid
\* that satisfy holds, within 2 rows and 2 columns of the cell and not the
\* cell itself, in row-major order, with their Manhattan distance
DescribedContext(values, row, column, Holds(_)) ==
  LET near == SelectSeq(RowMajor(values),
                        LAMBDA g : /\ Holds(g.value)
                                   /\ Distance(g.row, row) <= 2
                                   /\ Distance(g.column, column) <= 2
                                   /\ <<g.row, g.column>> # <<row, column>>)
  IN [k \in 1..Len(near) |->
        [value |-> near[k].value, row |-> near[k].row, column |-> near[k].column,
         distance |-> Distance(near[k].row, row) + Distance(near[k].column, column)]]

NotEmpty(value) == Len(value) > 0
NotBlank(value) == Len(Trim(value)) > 0

\* C25: the context getCellHeaders gives a cell holds exactly the non-empty
\* cells of the grid within 2 rows and 2 columns of it, never the cell
\* itself, each with its 1-based row and column and its Manhattan distance
\* (1 to 4, at most 24 entries), in row-major order.
C25_ContextIsNonEmptyBox ==
  GetCellHeadersCalled =>
    /\ outcome.value.context =
         DescribedContext(outcome.args[1], outcome.args[2], outcome.args[3], NotEmpty)
    /\ Len(outcome.value.context) <= 24
    /\ \A k \in 1..Len(outcome.value.context) :
         outcome.value.context[k].distance \in 1..4

\* C25 as the code has it: the cells of the context are those that hold more
\* than white space
C25_ContextIsNonBlankBox ==
  GetCellHeadersCalled =>
    /\ outcome.value.context =
         DescribedContext(outcome.args[1], outcome.args[2], outcome.args[3], NotBlank)
    /\ Len(outcome.value.context) <= 24
    /\ \A k \in 1..Len(outcome.value.context) :
         outcome.value.context[k].distance \in 1..4

\* C25 happens: a cell with all 24 cells around it in its context
C25_FullBox ==
  /\ GetCellHeadersCalled
  /\ Len(outcome.value.context) = 24

\* C29: the column header of a cell in column c is null or the trimmed text
\* of the cell of the first row in that same column c, whatever empty or
\* blank cells the first row has.
C29_HeaderOfOwnColumn ==
  GetCellHeadersCalled =>
    \/ outcome.value.column = <<>>
    \/ outcome.value.column = Trim(outcome.args[1][1][outcome.args[3]])

\* the part of C29 that holds: the header is that of the cell's own column
\* when no cell of the first row up to that column is empty or blank
C29_AfterFullHeaderCells ==
  (/\ GetCellHeadersCalled
   /\ \A c \in 1..outcome.args[3] : Len(Trim(outcome.args[1][1][c])) > 0)
    => \/ outcome.value.column = <<>>
       \/ outcome.value.column = Trim(outcome.args[1][1][outcome.args[3]])


\* C30: generateEmbedding(text, kind) always returns a vector the embedding
\* backend produced for that same text; a cache entry written for one text is
\* never returned for a different text of the same kind.
C30_ReturnsVectorOfSameText ==
  EmbeddingReturned => outcome.value \in produced[outcome.args[1]]

\* what holds of C30: the returned vector was produced by the backend for a
\* text with the same hashText as the text of the call
C30_ReturnsVectorOfSameHash ==
  EmbeddingReturned =>
    \E text \in DOMAIN produced :
      /\ HashText(text) = HashText(outcome.args[1])
      /\ outcome.value \in produced[text]


\* the upload route has answered
Uploaded == outcome.op = "upload"

\* C28: two different cells parsed in one load never receive the same id, so
\* after indexing all the cells into an empty index the number of cell
\* documents in the index equals the number of non-empty cells parsed.
C28_OneDocumentPerParsedCell ==
  Uploaded =>
    /\ \A i, j \in 1..Len(outcome.value.allCells) :
         outcome.value.allCells[i].id = outcome.value.allCells[j].id => i = j
    /\ outcome.value.searchIndexSize = outcome.value.totalCells

\* what holds of C28: when no two sheets of the load have names that
\* generateId maps to the same text, every parsed cell has its own document
C28_WithDistinctSheetIds ==
  (/\ Uploaded
   /\ \A f, g \in 1..Len(outcome.args[1]) :
        \A s \in 1..Len(outcome.args[1][f]), u \in 1..Len(outcome.args[1][g]) :
          GenerateId(outcome.args[1][f][s]) = GenerateId(outcome.args[1][g][u])
            => (f = g /\ s = u))
    => /\ \A i, j \in 1..Len(outcome.value.allCells) :
            outcome.value.allCells[i].id = outcome.value.allCells[j].id => i = j
       /\ outcome.value.searchIndexSize = outcome.value.totalCells


\* C26: once clearIndex has run, no document of a batch that started before
\* the clear is added to the index afterwards: a call that was suspended at
\* the clear changes nothing in the index when it goes on.
C26_NothingStoredFromBeforeTheClear ==
  [][(stale' # stale /\ outcome'.op # "clearIndex") => index' = index]_vars

\* what holds of C26: clearIndex leaves the index empty at the moment it
\* returns, whatever calls are suspended
C26_EmptyWhenClearReturns ==
  (outcome.op = "clearIndex" /\ stale # EmptyBag) => index = <<>>


\* a search that was suspended at its await has returned
SearchResumed == outcome.op = "search" /\ outcome.embeddingRequested

\* the ids of the documents of an index
IdsOf(idx) == {idx[n].id : n \in 1..Len(idx)}

\* an ingestion call or clearIndex has changed the index since the search
\* that has returned was suspended
ChangedMeanwhile == SearchResumed /\ outcome.args # <<>> /\ outcome.args[1] # IdsOf(index)

====
